---- MODULE Spec2Model ----
(***************************************************************************)
(* The ZeroMQ distributed in-memory connector of ProxyStore               *)
(* (proxystore/connectors/dim/zmqstream.py): the ZeroMQServer store with  *)
(* its stream registry, the RPC dispatch of handle_rpc, and the            *)
(* ZeroMQConnector operations that build RPCs and send them one by one     *)
(* through _send_rpcs.  The server is a single event loop, so one          *)
(* handle_rpc call is one atomic step; several connectors interleave at    *)
(* the granularity of single RPCs.  What a call returns or raises is       *)
(* given by the ...Call operators, which the actions apply to the store.   *)
(***************************************************************************)
EXTENDS Integers, Sequences, FiniteSets, TLC

\* Number of identifiers uuid4 hands out before the model stops minting.
MaxIds == 3
\* Longest batch passed to put_batch / get_batch.
MaxBatch == 2

\* The connectors, all constructed on the same address and port.
Connectors == {1, 2}
\* The serialized object a caller stores under the i-th generated id.  The
\* code never looks into the bytes (only at their length), so the callers
\* store pairwise different objects of different lengths: equal results
\* then name the same object.
Payload(i) == [j \in 1..i |-> i]

VARIABLES
    data,       \* ZeroMQServer.data: obj_id / stream_id -> bytes or stream
    blocked,    \* the server loop is inside a handler that does not return
    nextId,     \* the next identifier uuid4 generates
    keys,       \* the DIMKey values built so far (what callers can pass)
    pc,         \* per connector: "idle", "send" (in _send_rpcs), "wait"
    call,       \* per connector: the call in progress
    putLog,     \* history: per stream, the payloads of the puts it accepted
    reads,      \* history: per connector and stream, the results of its gets
    evicted,    \* history: standalone ids evicted and not stored again
    ended,      \* history: the streams an evict has ended, each with the
                \* connectors that had read all of it by then
    limit,      \* the number of identifiers this run mints
    proc,       \* per connector: the server process it started
    conn,       \* per connector: where its construction / close stands
    server,     \* per connector: self.server (0 is None)
    wfs,        \* the wait_for_server call under study
    close_future, \* run_server: "pending", "signalled" (SIGINT or SIGTERM
                \* is delivered, its handler has not run), "done"
    parent,     \* per connector: the process that constructed it, "alive",
                \* "exiting" (its exit callbacks run) or "exited"
    kill_timeout, \* per connector: the kill_timeout its spawn_server got
    files,      \* FileConnector.store_dir: filename -> bytes of the file
    filePuts,   \* history: the object each put was given, by filename
    fileKeys,   \* the filenames of the FileKey values put has returned
    fileOp,     \* per connector: the FileConnector call in progress and
                \* the outcome of the last one
    peers,      \* per peer: the fields of its PeerConnection
    tasks,      \* per peer and task: the PeerConnection call it runs
    signaling,  \* the messages the signaling server has yet to deliver
    wire,       \* history: per peer, the chunks it put on the channel,
                \* each with the send call it belongs to
    objects,    \* the Store of a stream: key -> object
    events,     \* the events published to the topic, in order
    producer,   \* per producer: the StreamProducer.send in progress
    consumer    \* the StreamConsumer: events taken and proxies returned

\* The data plane and the life cycle.
plane == <<data, blocked, nextId, keys, pc, call, putLog, reads, evicted,
           ended>>
life == <<limit, proc, conn, server, wfs>>
\* What the servers' signals and the other components of the package keep.
exits == <<parent, kill_timeout>>
filesys == <<files, filePuts, fileKeys, fileOp>>
p2p == <<peers, tasks, signaling, wire>>
pubsub == <<objects, events, producer, consumer>>
others == <<close_future, exits, filesys, p2p, pubsub>>

vars == <<data, blocked, nextId, keys, pc, call,
          putLog, reads, evicted, ended, limit, proc, conn, server, wfs,
          close_future, parent, kill_timeout, files, filePuts, fileKeys,
          fileOp, peers, tasks, signaling, wire, objects, events, producer,
          consumer>>

Ids == 1..MaxIds

\* ---------------------------------------------------------------- values

\* Python's None for an optional value, and a present value.
None == <<>>
Some(x) == <<x>>

NoExc == "None"

\* An empty dict.
EmptyDict == [k \in {} |-> k]

Store(d, k, v) == [x \in (DOMAIN d) \cup {k} |-> IF x = k THEN v ELSE d[x]]

Pop(d, k) == [x \in (DOMAIN d) \ {k} |-> d[x]]

RECURSIVE PopAll(_, _)
PopAll(d, ids) ==
    IF ids = <<>> THEN d ELSE PopAll(Pop(d, Head(ids)), Tail(ids))

\* A DIMKey; stream_id 0 is None.  NoKey stands for a None key argument.
DIMKey(obj_id, size, peer, stream_id) ==
    [none |-> FALSE, obj_id |-> obj_id, size |-> size, peer |-> peer,
     stream_id |-> stream_id]

NoKey == [none |-> TRUE, obj_id |-> 0, size |-> 0, peer |-> "", stream_id |-> 0]

\* An RPC request; client_id 0 is None.
RPC(operation, key, bytes, client_id) ==
    [operation |-> operation, key |-> key, data |-> bytes,
     client_id |-> client_id]

RPCResponse(operation, key, bytes, exists, exception) ==
    [operation |-> operation, key |-> key, data |-> bytes, exists |-> exists,
     exception |-> exception]

NoResponse == RPCResponse("none", NoKey, None, None, NoExc)

\* ---------------------------------------------------------------- stream

\* An entry of the store holding bytes.
BytesEntry(b) ==
    [stream |-> FALSE, bytes |-> b, proxy_uuids |-> <<>>, ended |-> FALSE,
     index |-> EmptyDict]

\* ProxyStream(): no packets, not ended, no consumer registered.
ProxyStream ==
    [stream |-> TRUE, bytes |-> <<>>, proxy_uuids |-> <<>>, ended |-> FALSE,
     index |-> EmptyDict]

\* ProxyStream.append: [stream, exception].
StreamAppend(st, id) ==
    IF st.ended
    THEN [stream |-> st, exception |-> "InvalidStateError"]
    ELSE [stream |-> [st EXCEPT !.proxy_uuids = Append(@, id)],
          exception |-> NoExc]

\* ProxyStream.end_stream: idempotent.
StreamEnd(st) == [st EXCEPT !.ended = TRUE]

\* ProxyStream.connect: a cursor at 0 for a consumer not yet tracked.
StreamConnect(st, host) ==
    IF host \in DOMAIN st.index THEN st
    ELSE [st EXCEPT !.index = Store(@, host, 0)]

\* ProxyStream.next_data: the next unread id (advancing the cursor), None
\* when the stream is ended and read to its end, and otherwise it waits.
StreamNext(st, host) ==
    LET i == st.index[host] IN
    IF i < Len(st.proxy_uuids)
    THEN [stream |-> [st EXCEPT !.index[host] = i + 1],
          id |-> Some(st.proxy_uuids[i + 1]), block |-> FALSE]
    ELSE [stream |-> st, id |-> None, block |-> ~st.ended]

\* ---------------------------------------------------------------- server

\* An evict that leaves the entry of the key's own object id in the store.
ServerEvictKeepsObject(d, key) ==
    IF key.stream_id # 0 /\ key.stream_id \in DOMAIN d
    THEN [data |-> PopAll([d EXCEPT ![key.stream_id] = StreamEnd(@)],
                          d[key.stream_id].proxy_uuids),
          exception |-> NoExc]
    ELSE [data |-> d, exception |-> NoExc]

\* ZeroMQServer.evict: [data, exception].
ServerEvict(d, key) ==
    IF key.stream_id # 0
    THEN IF key.stream_id \notin DOMAIN d
         THEN [data |-> d, exception |-> "KeyError"]
         ELSE IF ~d[key.stream_id].stream
         THEN [data |-> d, exception |-> "AttributeError"]
         ELSE LET stream == StreamEnd(d[key.stream_id])
                  d1 == [d EXCEPT ![key.stream_id] = stream]
                  d2 == PopAll(d1, stream.proxy_uuids)
              IN  [data |-> Pop(d2, key.obj_id), exception |-> NoExc]
    ELSE [data |-> Pop(d, key.obj_id), exception |-> NoExc]

\* ZeroMQServer.exists.
ServerExists(d, key) == key.obj_id \in DOMAIN d

\* A put that lists the new object id first in its stream.
ServerPutFirst(d, key, bytes) ==
    IF key.stream_id # 0
    THEN LET d1 == IF key.stream_id \notin DOMAIN d
                   THEN Store(d, key.stream_id, ProxyStream)
                   ELSE d
             st == d1[key.stream_id]
         IN  IF st.ended
             THEN [data |-> d1, exception |-> "InvalidStateError"]
             ELSE [data |-> Store([d1 EXCEPT ![key.stream_id].proxy_uuids =
                                      <<key.obj_id>> \o @],
                                  key.obj_id, BytesEntry(bytes)),
                   exception |-> NoExc]
    ELSE [data |-> Store(d, key.obj_id, BytesEntry(bytes)), exception |-> NoExc]

\* A put that stores the payload before it appends to the stream.
ServerPutStoresFirst(d, key, bytes) ==
    IF key.stream_id # 0
    THEN LET d0 == Store(d, key.obj_id, BytesEntry(bytes))
             d1 == IF key.stream_id \notin DOMAIN d0
                   THEN Store(d0, key.stream_id, ProxyStream)
                   ELSE d0
         IN  IF ~d1[key.stream_id].stream
             THEN [data |-> d1, exception |-> "AttributeError"]
             ELSE LET a == StreamAppend(d1[key.stream_id], key.obj_id) IN
                  IF a.exception # NoExc
                  THEN [data |-> d1, exception |-> a.exception]
                  ELSE [data |-> [d1 EXCEPT ![key.stream_id] = a.stream],
                        exception |-> NoExc]
    ELSE [data |-> Store(d, key.obj_id, BytesEntry(bytes)), exception |-> NoExc]

\* ZeroMQServer.put: [data, exception].
ServerPut(d, key, bytes) ==
    IF key.stream_id # 0
    THEN LET d1 == IF key.stream_id \notin DOMAIN d
                   THEN Store(d, key.stream_id, ProxyStream)
                   ELSE d
         IN  IF ~d1[key.stream_id].stream
             THEN [data |-> d1, exception |-> "AttributeError"]
             ELSE LET a == StreamAppend(d1[key.stream_id], key.obj_id) IN
                  IF a.exception # NoExc
                  THEN [data |-> d1, exception |-> a.exception]
                  ELSE [data |-> Store([d1 EXCEPT ![key.stream_id] = a.stream],
                                       key.obj_id, BytesEntry(bytes)),
                        exception |-> NoExc]
    ELSE [data |-> Store(d, key.obj_id, BytesEntry(bytes)), exception |-> NoExc]

\* self.data.get(id, None) for an id that names bytes.
Lookup(d, id) == IF id \in DOMAIN d THEN Some(d[id].bytes) ELSE None

\* A get that registers its client anew, at the start of the stream, on
\* every request.
ServerGetReconnects(d, key, host_id) ==
    IF key.stream_id # 0
    THEN IF key.stream_id \notin DOMAIN d
         THEN [data |-> d, exception |-> "KeyError", result |-> None,
               block |-> FALSE]
         ELSE IF ~d[key.stream_id].stream
         THEN [data |-> d, exception |-> "AttributeError", result |-> None,
               block |-> FALSE]
         ELSE LET stream == [d[key.stream_id] EXCEPT
                                !.index = Store(@, host_id, 0)]
                  n == StreamNext(stream, host_id)
              IN  [data |-> [d EXCEPT ![key.stream_id] = n.stream],
                   exception |-> NoExc,
                   result |-> IF n.id = None THEN None
                              ELSE Lookup(d, n.id[1]),
                   block |-> n.block]
    ELSE [data |-> d, exception |-> NoExc, result |-> Lookup(d, key.obj_id),
          block |-> FALSE]

\* ZeroMQServer.get: [data, exception, result, block].
ServerGet(d, key, host_id) ==
    IF key.stream_id # 0
    THEN IF key.stream_id \notin DOMAIN d
         THEN [data |-> d, exception |-> "KeyError", result |-> None,
               block |-> FALSE]
         ELSE IF ~d[key.stream_id].stream
         THEN [data |-> d, exception |-> "AttributeError", result |-> None,
               block |-> FALSE]
         ELSE LET stream == StreamConnect(d[key.stream_id], host_id)
                  n == StreamNext(stream, host_id)
              IN  [data |-> [d EXCEPT ![key.stream_id] = n.stream],
                   exception |-> NoExc,
                   result |-> IF n.id = None THEN None
                              ELSE Lookup(d, n.id[1]),
                   block |-> n.block]
    ELSE [data |-> d, exception |-> NoExc, result |-> Lookup(d, key.obj_id),
          block |-> FALSE]

\* A handle_rpc whose put stores the payload whether the handler raises or
\* not.
handle_rpc_stores(d, rpc) ==
    IF rpc.operation = "put" /\ rpc.data # None
    THEN [data |-> Store(ServerPut(d, rpc.key, rpc.data[1]).data,
                         rpc.key.obj_id, BytesEntry(rpc.data[1])),
          block |-> FALSE,
          response |-> RPCResponse(rpc.operation, rpc.key, None, None,
                           ServerPut(d, rpc.key, rpc.data[1]).exception)]
    ELSE IF rpc.operation = "exists"
    THEN [data |-> d, block |-> FALSE,
          response |-> RPCResponse("exists", rpc.key, None,
                                   Some(ServerExists(d, rpc.key)), NoExc)]
    ELSE IF rpc.operation = "evict"
    THEN [data |-> ServerEvict(d, rpc.key).data, block |-> FALSE,
          response |-> RPCResponse(rpc.operation, rpc.key, None, None,
                                   ServerEvict(d, rpc.key).exception)]
    ELSE [data |-> ServerGet(d, rpc.key, rpc.client_id).data,
          block |-> ServerGet(d, rpc.key, rpc.client_id).block,
          response |-> RPCResponse(rpc.operation, rpc.key,
                                   ServerGet(d, rpc.key, rpc.client_id).result,
                                   None,
                                   ServerGet(d, rpc.key, rpc.client_id).exception)]

\* A handle_rpc that answers an evict with a response that names no key.
handle_rpc_unkeyed(d, rpc) ==
    IF rpc.operation = "exists"
    THEN [data |-> d, block |-> FALSE,
          response |-> RPCResponse("exists", rpc.key, None,
                                   Some(ServerExists(d, rpc.key)), NoExc)]
    ELSE IF rpc.operation = "evict"
    THEN [data |-> ServerEvict(d, rpc.key).data, block |-> FALSE,
          response |-> RPCResponse(rpc.operation, NoKey, None, None,
                                   ServerEvict(d, rpc.key).exception)]
    ELSE IF rpc.operation = "get"
    THEN [data |-> ServerGet(d, rpc.key, rpc.client_id).data,
          block |-> ServerGet(d, rpc.key, rpc.client_id).block,
          response |-> RPCResponse(rpc.operation, rpc.key,
                                   ServerGet(d, rpc.key, rpc.client_id).result,
                                   None,
                                   ServerGet(d, rpc.key, rpc.client_id).exception)]
    ELSE IF rpc.operation = "put" /\ rpc.data # None
    THEN [data |-> ServerPut(d, rpc.key, rpc.data[1]).data, block |-> FALSE,
          response |-> RPCResponse(rpc.operation, rpc.key, None, None,
                                   ServerPut(d, rpc.key, rpc.data[1]).exception)]
    ELSE [data |-> d, block |-> FALSE,
          response |-> RPCResponse(rpc.operation, rpc.key, None, None,
                                   "AssertionError")]

\* ZeroMQServer.handle_rpc: [data, response, block].  A handler's exception
\* becomes the response's exception field.
handle_rpc(d, rpc) ==
    CASE rpc.operation = "exists" ->
           [data |-> d, block |-> FALSE,
            response |-> RPCResponse("exists", rpc.key, None,
                                     Some(ServerExists(d, rpc.key)), NoExc)]
      [] rpc.operation = "evict" ->
           LET r == ServerEvict(d, rpc.key) IN
           [data |-> r.data, block |-> FALSE,
            response |-> RPCResponse(rpc.operation, rpc.key, None, None,
                                     r.exception)]
      [] rpc.operation = "get" ->
           LET r == ServerGet(d, rpc.key, rpc.client_id) IN
           [data |-> r.data, block |-> r.block,
            response |-> RPCResponse(rpc.operation, rpc.key, r.result, None,
                                     r.exception)]
      [] rpc.operation = "put" ->
           IF rpc.data = None
           THEN [data |-> d, block |-> FALSE,
                 response |-> RPCResponse(rpc.operation, rpc.key, None, None,
                                          "AssertionError")]
           ELSE LET r == ServerPut(d, rpc.key, rpc.data[1]) IN
                [data |-> r.data, block |-> FALSE,
                 response |-> RPCResponse(rpc.operation, rpc.key, None, None,
                                          r.exception)]
      [] OTHER ->
           [data |-> d, block |-> FALSE,
            response |-> RPCResponse(rpc.operation, rpc.key, None, None,
                                     "AssertionError")]

\* The messages a server receives: the liveness request, a serialized RPC,
\* and bytes that deserialize cannot decode.
Ping == [kind |-> "ping", rpc |-> RPC("none", NoKey, None, 0)]
Request(rpc) == [kind |-> "rpc", rpc |-> rpc]
Undecodable == [kind |-> "undecodable", rpc |-> RPC("none", NoKey, None, 0)]

\* One turn of the loop of run_server on the message msg:
\* [data, reply, alive, block].  The liveness request is answered with
\* pong; any other message is deserialized, outside every try block, and
\* what comes out is given to handle_rpc, whose response is sent back.
run_server(d, msg) ==
    IF msg.kind = "ping"
    THEN [data |-> d, reply |-> Some("pong"), alive |-> TRUE, block |-> FALSE]
    ELSE IF msg.kind = "undecodable"
    THEN [data |-> d, reply |-> None, alive |-> FALSE, block |-> FALSE]
    ELSE LET h == handle_rpc(d, msg.rpc) IN
         [data |-> h.data, alive |-> TRUE, block |-> h.block,
          reply |-> IF h.block THEN None ELSE Some(h.response)]

\* ------------------------------------------------------------- connector

\* self.address / self.port: every connector is built on the same endpoint.
Address(c) == "tcp://host:port"

\* One client id shared by every connector.
SharedClientId(c) == 1

\* self._client_id = str(uuid.uuid4()): one per connector.
ClientId(c) == c

Range(f) == {f[i] : i \in DOMAIN f}

\* The longest chunk_length studied.
MaxChunk == 3

\* utils.chunk_bytes: the pieces data[i : i + chunk_length] of the message
\* for i = 0, chunk_length, 2 * chunk_length, ...
RECURSIVE chunk_bytes(_, _)
chunk_bytes(m, chunk_length) ==
    IF m = <<>> THEN <<>>
    ELSE IF Len(m) <= chunk_length THEN <<m>>
    ELSE <<SubSeq(m, 1, chunk_length)>>
             \o chunk_bytes(SubSeq(m, chunk_length + 1, Len(m)), chunk_length)

\* b''.join(parts)
RECURSIVE Join(_)
Join(parts) == IF parts = <<>> THEN <<>> ELSE Head(parts) \o Join(Tail(parts))

\* What the receiver of a message reads: send_multipart of the chunks,
\* recv_multipart, join.
Transfer(m, chunk_length) == Join(chunk_bytes(m, chunk_length))

\* One turn of the loop of _send_rpcs on the store d: the RPC is sent to the
\* peer of its key and handled there, [data, response, exception, block].
\* A None key raises at rpc.key.peer_host, before anything is sent; a
\* response with an exception raises it; the operation and key of the
\* response are asserted to be those of the request.
Exchange(d, rpc) ==
    IF rpc.key = NoKey
    THEN [data |-> d, response |-> NoResponse, exception |-> "AttributeError",
          block |-> FALSE]
    ELSE LET h == handle_rpc(d, rpc) IN
         [data |-> h.data, response |-> h.response, block |-> h.block,
          exception |->
             IF h.response.exception # NoExc THEN h.response.exception
             ELSE IF rpc.operation # h.response.operation
                     \/ rpc.key # h.response.key
             THEN "AssertionError"
             ELSE NoExc]

\* The address of a connector and server on another node.
Remote == "tcp://remote:port"

\* The stores of the two servers, by address: d here, d2 on the other node.
Servers(d, d2) ==
    [a \in {Address(1), Remote} |-> IF a = Remote THEN d2 ELSE d]

\* One turn of the loop of _send_rpcs where servers run on both nodes: the
\* RPC goes to the peer its key names, tcp://{rpc.key.peer_host}:
\* {rpc.key.peer_port}, and is handled on the store there.
Deliver(stores, rpc) ==
    LET x == Exchange(stores[rpc.key.peer], rpc) IN
    [stores |-> [stores EXCEPT ![rpc.key.peer] = x.data],
     response |-> x.response, exception |-> x.exception, block |-> x.block]

\* The DIMKey put builds for obj when it is given key.
DataKey(c, id, obj, key) ==
    DIMKey(id, Len(obj), Address(c), IF key = NoKey THEN 0 ELSE key.stream_id)

\* What put hands back to its caller: its key argument.
PutReturn(key, data_key) == key

\* ZeroMQConnector.put of obj with the fresh identifier id on the store d:
\* [data, exception, block, response, built, ret].
PutCall(d, c, id, obj, key) ==
    LET data_key == DataKey(c, id, obj, key)
        x == Exchange(d, RPC("put", data_key, Some(obj), 0))
    IN  [data |-> x.data, exception |-> x.exception, block |-> x.block,
         response |-> x.response, built |-> data_key,
         ret |-> PutReturn(key, data_key)]

\* ZeroMQConnector.get: [data, exception, block, ret].
GetCall(d, c, key) ==
    LET x == Exchange(d, RPC("get", key, None, ClientId(c))) IN
    [data |-> x.data, exception |-> x.exception, block |-> x.block,
     response |-> x.response, ret |-> x.response.data]

\* ZeroMQConnector.exists: [data, exception, block, ret].
ExistsCall(d, c, key) ==
    LET x == Exchange(d, RPC("exists", key, None, 0)) IN
    [data |-> x.data, block |-> x.block, response |-> x.response,
     exception |-> IF x.exception = NoExc /\ x.response.exists = None
                   THEN "AssertionError" ELSE x.exception,
     ret |-> x.response.exists]

\* ZeroMQConnector.evict: [data, exception, block].
EvictCall(d, c, key) ==
    LET x == Exchange(d, RPC("evict", key, None, ClientId(c))) IN
    [data |-> x.data, exception |-> x.exception, block |-> x.block,
     response |-> x.response]

\* ZeroMQConnector.close_stream
CloseStreamCall(d, c, key) == EvictCall(d, c, key)

\* ZeroMQConnector.create_stream: the key it returns.
CreateStreamCall(c, id) == DIMKey(id, 0, Address(c), id)

\* The keys put_batch builds for objs from the identifiers id, id + 1, ...:
\* [exception, keys].  key.stream_id of a None key raises AttributeError
\* when the first DIMKey is built.
BatchKeys(c, id, objs, key) ==
    IF key = NoKey /\ objs # <<>>
    THEN [exception |-> "AttributeError", keys |-> <<>>]
    ELSE [exception |-> NoExc,
          keys |-> [i \in 1..Len(objs) |->
                      DIMKey(id + i - 1, Len(objs[i]), Address(c),
                             key.stream_id)]]

\* The RPCs put_batch builds from its keys and objects.
BatchRpcs(ks, objs) ==
    [x \in 1..(Len(ks) * Len(ks)) |->
        LET i == ((x - 1) % Len(ks)) + 1
        IN  RPC("put", ks[i], Some(objs[i]), 0)]

\* _send_rpcs run from its first RPC to its return on the store d, no other
\* connector being served meanwhile: [data, responses, exception, block,
\* failed], failed being the response whose exception was raised.
RECURSIVE SendRpcs(_, _)
SendRpcs(d, rpcs) ==
    IF rpcs = <<>>
    THEN [data |-> d, responses |-> <<>>, exception |-> NoExc, block |-> FALSE,
          failed |-> NoResponse]
    ELSE LET x == Exchange(d, Head(rpcs)) IN
         IF x.block \/ x.exception # NoExc
         THEN [data |-> x.data, responses |-> <<>>, exception |-> x.exception,
               block |-> x.block, failed |-> x.response]
         ELSE LET r == SendRpcs(x.data, Tail(rpcs)) IN
              [data |-> r.data, exception |-> r.exception, block |-> r.block,
               failed |-> r.failed,
               responses |-> IF r.block \/ r.exception # NoExc THEN <<>>
                             ELSE <<x.response>> \o r.responses]

\* ZeroMQConnector.put_batch run to its return: [data, exception, block, ret].
PutBatchCall(d, c, id, objs, key) ==
    LET b == BatchKeys(c, id, objs, key) IN
    IF b.exception # NoExc
    THEN [data |-> d, exception |-> b.exception, block |-> FALSE, ret |-> <<>>]
    ELSE LET r == SendRpcs(d, BatchRpcs(b.keys, objs)) IN
         [data |-> r.data, exception |-> r.exception, block |-> r.block,
          ret |-> b.keys]

\* ZeroMQConnector.get_batch run to its return: [data, exception, block, ret].
GetBatchCall(d, c, ks) ==
    LET r == SendRpcs(d, [i \in 1..Len(ks) |->
                             RPC("get", ks[i], None, ClientId(c))])
    IN  [data |-> r.data, exception |-> r.exception, block |-> r.block,
         ret |-> [i \in 1..Len(r.responses) |-> r.responses[i].data]]

\* A batch call inside _send_rpcs: the objects and the keys built for them
\* (put_batch), the number of RPCs it sends in all and of those answered so
\* far, and the keys that existed when it began (get_batch).
Call(op, objs, built, total, pool) ==
    [op |-> op, objs |-> objs, built |-> built, total |-> total,
     sent |-> 0, pool |-> pool]

NoCall == Call("none", <<>>, <<>>, 0, {})

\* ------------------------------------------------------------ histories

\* The cursor of host in stream sid of the store d; 0 when it has none.
Cursor(d, sid, host) ==
    IF sid \in DOMAIN d /\ host \in DOMAIN d[sid].index
    THEN d[sid].index[host] ELSE 0

\* The request removed the stream it names from the store d.
Removes(d, d2, rpc) ==
    /\ rpc.key.stream_id # 0
    /\ rpc.key.stream_id \in DOMAIN d
    /\ rpc.key.stream_id \notin DOMAIN d2

\* The histories after the server answered rpc of connector c with resp, d
\* being the store before the request and d2 the store after it.  The
\* histories of a stream end with the stream.
LogPut(d, d2, rpc) ==
    LET sid == rpc.key.stream_id IN
    IF rpc.operation = "put" /\ sid # 0
    THEN [putLog EXCEPT ![sid] = Append(@, rpc.data[1])]
    ELSE IF Removes(d, d2, rpc)
    THEN [putLog EXCEPT ![sid] = <<>>]
    ELSE putLog

LogReads(d, d2, c, rpc, resp) ==
    LET sid == rpc.key.stream_id IN
    IF rpc.operation = "get" /\ sid # 0
       /\ Cursor(d2, sid, rpc.client_id) # Cursor(d, sid, rpc.client_id)
    THEN [reads EXCEPT ![c][sid] = Append(@, resp.data)]
    ELSE IF Removes(d, d2, rpc)
    THEN [x \in Connectors |-> [reads[x] EXCEPT ![sid] = <<>>]]
    ELSE reads

LogEvicted(rpc) ==
    IF rpc.operation = "evict" /\ rpc.key.stream_id = 0
    THEN evicted \cup {rpc.key.obj_id}
    ELSE IF rpc.operation = "put"
    THEN evicted \ {rpc.key.obj_id}
    ELSE evicted

LogEnded(d, rpc) ==
    LET sid == rpc.key.stream_id IN
    IF rpc.operation = "evict" /\ sid # 0
    THEN IF \E e \in ended : e.stream = sid THEN ended
         ELSE ended \cup
              {[stream |-> sid,
                drained |-> {x \in Connectors :
                               Len(reads[x][sid]) = Len(putLog[sid])}]}
    ELSE IF rpc.operation = "put" /\ sid # 0 /\ sid \notin DOMAIN d
    THEN {e \in ended : e.stream # sid}
    ELSE ended

\* ------------------------------------------------------------ _send_rpcs

\* A server process is bound to the port and inside run_server's loop.
Up == \E p \in Connectors : proc[p] = "running"


\* Connector c sends rpc and the server handles it; x is the outcome of the
\* exchange.  A server that is inside a handler answers nothing, and a get
\* whose next_data does not return leaves it there.
Handled(c, rpc, x) ==
    /\ conn[c] = "ready"
    /\ rpc.key = NoKey \/ (Up /\ ~blocked)
    /\ UNCHANGED <<life, others>>
    /\ data' = x.data
    /\ blocked' = (blocked \/ x.block)
    /\ IF x.block \/ x.exception # NoExc
       THEN UNCHANGED <<putLog, reads, evicted, ended>>
       ELSE /\ putLog' = LogPut(data, x.data, rpc)
            /\ reads' = LogReads(data, x.data, c, rpc, x.response)
            /\ evicted' = LogEvicted(rpc)
            /\ ended' = LogEnded(data, rpc)

\* A call of one RPC: it returns or raises in the step that sends the RPC,
\* unless the server does not answer.
Single(c, op, rpc, x, built) ==
    /\ pc[c] = "idle"
    /\ Handled(c, rpc, x)
    /\ pc' = [pc EXCEPT ![c] = IF x.block THEN "wait" ELSE "idle"]
    /\ call' = [call EXCEPT ![c] =
                  IF x.block THEN Call(op, <<>>, <<>>, 1, {}) ELSE NoCall]
    /\ keys' = IF x.block \/ x.exception # NoExc THEN keys
               ELSE keys \cup built

\* A loop whose first turn hands every RPC of a put_batch to the server.
TurnPipelined(c, cl, rpc) ==
    LET e == Exchange(data, rpc)
        x == IF cl.op = "put_batch" /\ cl.sent = 0 /\ e.exception = NoExc
             THEN [e EXCEPT !.data = SendRpcs(data, BatchRpcs(cl.built,
                                                               cl.objs)).data]
             ELSE e
    IN
    /\ Handled(c, rpc, x)
    /\ IF x.block
       THEN /\ pc' = [pc EXCEPT ![c] = "wait"]
            /\ call' = [call EXCEPT ![c] = cl]
            /\ keys' = keys
       ELSE IF x.exception # NoExc
       THEN /\ pc' = [pc EXCEPT ![c] = "idle"]
            /\ call' = [call EXCEPT ![c] = NoCall]
            /\ keys' = keys
       ELSE IF cl.sent + 1 = cl.total
       THEN /\ pc' = [pc EXCEPT ![c] = "idle"]
            /\ call' = [call EXCEPT ![c] = NoCall]
            /\ keys' = keys \cup Range(cl.built)
       ELSE /\ pc' = [pc EXCEPT ![c] = "send"]
            /\ call' = [call EXCEPT ![c] = [cl EXCEPT !.sent = @ + 1]]
            /\ keys' = keys

\* One turn of the loop of _send_rpcs for the batch call cl: the response
\* is raised, or checked and collected, and the call returns with the last
\* response.
Turn(c, cl, rpc) ==
    LET x == Exchange(data, rpc) IN
    /\ Handled(c, rpc, x)
    /\ IF x.block
       THEN /\ pc' = [pc EXCEPT ![c] = "wait"]
            /\ call' = [call EXCEPT ![c] = cl]
            /\ keys' = keys
       ELSE IF x.exception # NoExc
       THEN /\ pc' = [pc EXCEPT ![c] = "idle"]
            /\ call' = [call EXCEPT ![c] = NoCall]
            /\ keys' = keys
       ELSE IF cl.sent + 1 = cl.total
       THEN /\ pc' = [pc EXCEPT ![c] = "idle"]
            /\ call' = [call EXCEPT ![c] = NoCall]
            /\ keys' = keys \cup Range(cl.built)
       ELSE /\ pc' = [pc EXCEPT ![c] = "send"]
            /\ call' = [call EXCEPT ![c] = [cl EXCEPT !.sent = @ + 1]]
            /\ keys' = keys

\* The RPC a batch call sends next.  The keys of a get_batch are an input:
\* the model draws each when its RPC is sent, among the keys that existed
\* when the call began.
NextRpcs(c, cl) ==
    IF cl.op = "put_batch"
    THEN {BatchRpcs(cl.built, cl.objs)[cl.sent + 1]}
    ELSE {RPC("get", k, None, ClientId(c)) : k \in cl.pool}

\* The number of RPCs of its call in progress that connector c has sent:
\* those answered, and the one it waits for.
Issued(c) == call[c].sent + (IF pc[c] = "wait" THEN 1 ELSE 0)

\* The following turns of the loop.
SendRpc(c) ==
    /\ pc[c] = "send"
    /\ \E rpc \in NextRpcs(c, call[c]) : Turn(c, call[c], rpc)
    /\ UNCHANGED nextId

\* ------------------------------------------------------------ operations

\* ZeroMQConnector.put
Put(c) ==
    \E key \in keys \cup {NoKey} :
        /\ nextId <= limit
        /\ LET obj == Payload(nextId)
               p == PutCall(data, c, nextId, obj, key)
           IN  Single(c, "put", RPC("put", p.built, Some(obj), 0), p,
                      {p.built})
        /\ nextId' = nextId + 1

\* ZeroMQConnector.get
Get(c) ==
    \E key \in keys \cup {NoKey} :
        /\ Single(c, "get", RPC("get", key, None, ClientId(c)),
                  GetCall(data, c, key), {})
        /\ UNCHANGED nextId

\* ZeroMQConnector.exists
Exists(c) ==
    \E key \in keys :
        /\ Single(c, "exists", RPC("exists", key, None, 0),
                  ExistsCall(data, c, key), {})
        /\ UNCHANGED nextId

\* ZeroMQConnector.evict
Evict(c) ==
    \E key \in keys :
        /\ Single(c, "evict", RPC("evict", key, None, ClientId(c)),
                  EvictCall(data, c, key), {})
        /\ UNCHANGED nextId

\* ZeroMQConnector.close_stream
CloseStream(c) ==
    \E key \in keys :
        /\ key.stream_id # 0
        /\ Single(c, "close_stream", RPC("evict", key, None, ClientId(c)),
                  CloseStreamCall(data, c, key), {})
        /\ UNCHANGED nextId

\* ZeroMQConnector.create_stream: no RPC is sent.
CreateStream(c) ==
    /\ pc[c] = "idle"
    /\ conn[c] = "ready"
    /\ nextId <= limit
    /\ keys' = keys \cup {CreateStreamCall(c, nextId)}
    /\ nextId' = nextId + 1
    /\ UNCHANGED <<data, blocked, pc, call, putLog, reads, evicted, ended>>
    /\ UNCHANGED <<life, others>>

\* ZeroMQConnector.put_batch: it raises while it builds its keys, returns at
\* once when it has nothing to send, and otherwise enters _send_rpcs.
PutBatch(c) ==
    \E n \in 0..MaxBatch, key \in keys \cup {NoKey} :
        LET objs == [i \in 1..n |-> Payload(nextId + i - 1)]
            b == BatchKeys(c, nextId, objs, key)
        IN
        /\ pc[c] = "idle"
        /\ conn[c] = "ready"
        /\ IF b.exception # NoExc \/ n = 0
           THEN UNCHANGED vars
           ELSE /\ nextId + n - 1 <= limit
                /\ nextId' = nextId + n
                /\ Turn(c, Call("put_batch", objs, b.keys,
                                Len(BatchRpcs(b.keys, objs)), {}),
                        BatchRpcs(b.keys, objs)[1])

\* ZeroMQConnector.get_batch
GetBatch(c) ==
    \E n \in 0..MaxBatch :
        /\ pc[c] = "idle"
        /\ conn[c] = "ready"
        /\ UNCHANGED nextId
        /\ IF n = 0
           THEN UNCHANGED <<data, blocked, keys, pc, call, putLog, reads,
                            evicted, ended, limit, proc, conn, server, wfs, others>>
           ELSE LET cl == Call("get_batch", <<>>, <<>>, n, keys) IN
                \E rpc \in NextRpcs(c, cl) : Turn(c, cl, rpc)

\* ----------------------------------------------------------- life cycle

\* A liveness request sent now is answered: a server is bound to the port
\* and its loop is not inside a handler.
Pong == Up /\ ~blocked /\ run_server(data, Ping).reply = Some("pong")

\* The server process ends: its store goes with it.
ServerGone ==
    /\ data' = EmptyDict
    /\ blocked' = FALSE
    /\ putLog' = [s \in DOMAIN putLog |-> <<>>]
    /\ reads' = [c \in Connectors |-> [s \in DOMAIN putLog |-> <<>>]]
    /\ evicted' = {}
    /\ ended' = {}
    /\ UNCHANGED <<nextId, keys, pc, call>>

\* ZeroMQConnector.__init__ up to the start of the server process: the
\* probe is answered and the connector attaches, owning no server, or it
\* times out and spawn_server starts a server process.
Connect(c) ==
    /\ conn[c] = "new"
    /\ IF Pong
       THEN /\ conn' = [conn EXCEPT ![c] = "ready"]
            /\ server' = [server EXCEPT ![c] = 0]
            /\ proc' = proc
       ELSE /\ conn' = [conn EXCEPT ![c] = "spawned"]
            /\ proc' = [proc EXCEPT ![c] = "starting"]
            /\ server' = server
    /\ UNCHANGED <<plane, limit, wfs, others>>

\* The started process reaches socket.bind in run_server: it serves from
\* then on, or the port is taken, bind raises and the process exits.
Bind(p) ==
    /\ proc[p] = "starting"
    /\ proc' = [proc EXCEPT ![p] = IF Up THEN "exited" ELSE "running"]
    /\ UNCHANGED <<plane, limit, conn, server, wfs, others>>

\* A spawn_server that returns without waiting for the server.
SpawnedUnprobed(c) ==
    /\ conn[c] = "spawned"
    /\ conn' = [conn EXCEPT ![c] = "ready"]
    /\ server' = [server EXCEPT ![c] = c]
    /\ UNCHANGED <<plane, limit, proc, wfs, others>>

\* A spawn_server that terminates the process it started when the probe
\* times out.
SpawnedReaps(c) ==
    /\ conn[c] = "spawned"
    /\ IF Pong
       THEN /\ conn' = [conn EXCEPT ![c] = "ready"]
            /\ server' = [server EXCEPT ![c] = c]
            /\ UNCHANGED <<plane, proc>>
       ELSE /\ conn' = [conn EXCEPT ![c] = "failed"]
            /\ server' = server
            /\ proc' = [proc EXCEPT ![c] =
                          IF @ \in {"starting", "running"}
                          THEN "terminated" ELSE @]
            /\ IF proc[c] = "running" THEN ServerGone ELSE UNCHANGED plane
    /\ UNCHANGED <<limit, wfs, others>>

\* The end of spawn_server and of __init__: the probe after the spawn is
\* answered and the connector keeps the process it started, or it times
\* out and the construction raises ServerTimeoutError.
Spawned(c) ==
    /\ conn[c] = "spawned"
    /\ IF Pong
       THEN /\ conn' = [conn EXCEPT ![c] = "ready"]
            /\ server' = [server EXCEPT ![c] = c]
       ELSE /\ conn' = [conn EXCEPT ![c] = "failed"]
            /\ server' = server
    /\ UNCHANGED <<plane, limit, proc, wfs, others>>

\* A close that terminates the running server whoever started it.
CloseKillsAny(c, kill_server) ==
    /\ conn[c] = "ready"
    /\ pc[c] = "idle"
    /\ conn' = [conn EXCEPT ![c] =
                  IF kill_server THEN "closed(True)" ELSE "closed(False)"]
    /\ IF kill_server /\ Up /\ ~blocked
       THEN /\ proc' = [p \in Connectors |->
                          IF proc[p] = "running" THEN "terminated" ELSE proc[p]]
            /\ ServerGone
       ELSE UNCHANGED <<plane, proc>>
    /\ UNCHANGED <<limit, server, wfs, others>>

\* A close that leaves the server process alone whatever kill_server says.
CloseKillsNone(c, kill_server) ==
    /\ conn[c] = "ready"
    /\ pc[c] = "idle"
    /\ conn' = [conn EXCEPT ![c] =
                  IF kill_server THEN "closed(True)" ELSE "closed(False)"]
    /\ UNCHANGED <<plane, proc, limit, server, wfs, others>>

\* ZeroMQConnector.close(kill_server).  terminate() signals the process the
\* connector started and join() waits for it to end: a loop that is inside
\* a handler never sees the signal, and close does not return.
Close(c, kill_server) ==
    /\ conn[c] = "ready"
    /\ pc[c] = "idle"
    /\ IF kill_server /\ server[c] # 0
       THEN IF proc[server[c]] = "running"
            THEN IF blocked
                 THEN /\ conn' = [conn EXCEPT ![c] = "closing"]
                      /\ UNCHANGED <<plane, proc>>
                 ELSE /\ conn' = [conn EXCEPT ![c] = "closed(True)"]
                      /\ proc' = [proc EXCEPT ![server[c]] = "terminated"]
                      /\ ServerGone
            ELSE /\ conn' = [conn EXCEPT ![c] = "closed(True)"]
                 /\ proc' = [proc EXCEPT ![server[c]] =
                               IF @ = "starting" THEN "terminated" ELSE @]
                 /\ UNCHANGED plane
       ELSE /\ conn' = [conn EXCEPT ![c] =
                          IF kill_server THEN "closed(True)"
                          ELSE "closed(False)"]
            /\ UNCHANGED <<plane, proc>>
    /\ UNCHANGED <<limit, server, wfs, others>>

\* A peer sends the server bytes that are not a serialized RPC: deserialize
\* raises inside run_server and the server process ends without a reply.
BadRequest ==
    LET r == run_server(data, Undecodable) IN
    /\ Up /\ ~blocked
    /\ IF r.alive
       THEN UNCHANGED <<plane, proc>>
       ELSE /\ proc' = [p \in Connectors |->
                          IF proc[p] = "running" THEN "crashed" ELSE proc[p]]
            /\ ServerGone
    /\ UNCHANGED <<limit, conn, server, wfs, others>>

\* SIGINT or SIGTERM is delivered to the server process, whatever it is
\* doing.
Signal ==
    /\ Up
    /\ close_future = "pending"
    /\ close_future' = "signalled"
    /\ UNCHANGED <<plane, life, exits, filesys, p2p, pubsub>>

\* The event loop runs the handler registered for the signal, which
\* resolves close_future.  The loop runs handlers while run_server awaits a
\* message or the sending of a reply, never while handle_rpc runs, which
\* awaits nothing.
SetResult ==
    /\ Up /\ ~blocked
    /\ close_future = "signalled"
    /\ close_future' = "done"
    /\ UNCHANGED <<plane, life, exits, filesys, p2p, pubsub>>

\* run_server finds close_future done at the top of its loop (a receive
\* that got no message within 100 ms goes there too): it leaves the loop,
\* the socket is unbound and closed and the process ends.
LoopExit ==
    /\ Up /\ ~blocked
    /\ close_future = "done"
    /\ proc' = [p \in Connectors |->
                  IF proc[p] = "running" THEN "exited" ELSE proc[p]]
    /\ ServerGone
    /\ UNCHANGED <<limit, conn, server, wfs, others>>

\* The process that constructed connector c exits: the interpreter starts
\* to run its exit callbacks.
ParentExit(c) ==
    /\ parent[c] = "alive"
    /\ parent' = [parent EXCEPT ![c] = "exiting"]
    /\ UNCHANGED <<plane, life, close_future, kill_timeout, filesys, p2p,
                   pubsub>>

\* spawn_server has registered _kill_on_exit for the process it started,
\* straight after starting it and before the probe.
Registered(c) == proc[c] # "none"

\* _kill_on_exit for the process connector c started: terminate(), then
\* join(timeout=kill_timeout), then kill() and join() if the process is
\* still alive.  A process not yet in its loop dies of the signal, a loop
\* that awaits a message exits on it, and a loop inside a handler never
\* sees it: the join times out and kill() ends the process, or, with
\* kill_timeout=None, the join never returns.
KillOnExit(c) ==
    /\ parent[c] = "exiting"
    /\ parent' = [parent EXCEPT ![c] = "exited"]
    /\ IF ~Registered(c)
       THEN UNCHANGED <<plane, proc>>
       ELSE IF proc[c] = "starting"
       THEN /\ proc' = [proc EXCEPT ![c] = "terminated"]
            /\ UNCHANGED plane
       ELSE IF proc[c] = "running"
       THEN /\ blocked => kill_timeout[c] # None
            /\ proc' = [proc EXCEPT ![c] =
                          IF blocked THEN "killed" ELSE "terminated"]
            /\ ServerGone
       ELSE UNCHANGED <<plane, proc>>
    /\ UNCHANGED <<limit, conn, server, wfs, close_future, kill_timeout,
                   filesys, p2p, pubsub>>

\* -------------------------------------------------------- FileConnector

\* Connectors on one store directory, in one or several processes.  Each
\* call is a sequence of system calls, and the calls of different
\* connectors interleave between them.

\* The number of files put creates in a run.
MaxFiles == 2

\* No call in progress; the last call was op on filename, and ret and exc
\* are what it returned or raised.
FileDone(op, filename, ret, exc) ==
    [at |-> "idle", op |-> op, filename |-> filename, obj |-> <<>>,
     ret |-> ret, exc |-> exc]

\* A call between its two system calls.
FileCall(op, filename, obj) ==
    [at |-> "called", op |-> op, filename |-> filename, obj |-> obj,
     ret |-> None, exc |-> NoExc]

FileUnchanged == UNCHANGED <<plane, life, close_future, exits, p2p, pubsub>>

\* put, up to open(path, 'wb', buffering=0): uuid4 names a new file, which
\* exists from now on and is empty.
FilePutOpen(c) ==
    \E i \in 1..MaxFiles :
        LET filename == Len(filePuts) + 1 IN
        /\ fileOp[c].at = "idle"
        /\ Len(filePuts) < MaxFiles
        /\ filePuts' = Append(filePuts, Payload(i))
        /\ files' = Store(files, filename, <<>>)
        /\ fileOp' = [fileOp EXCEPT ![c] = FileCall("put", filename, Payload(i))]
        /\ UNCHANGED fileKeys
        /\ FileUnchanged

\* put, from f.write(obj) to return key.
FilePutWrite(c) ==
    LET filename == fileOp[c].filename IN
    /\ fileOp[c].at = "called" /\ fileOp[c].op = "put"
    /\ files' = Store(files, filename, fileOp[c].obj)
    /\ fileKeys' = fileKeys \cup {filename}
    /\ fileOp' = [fileOp EXCEPT ![c] = FileDone("put", filename, Some(filename), NoExc)]
    /\ UNCHANGED filePuts
    /\ FileUnchanged

\* get, up to os.path.exists(path): with no file there it returns None.
FileGetExists(c) ==
    \E filename \in fileKeys :
        /\ fileOp[c].at = "idle"
        /\ fileOp' = [fileOp EXCEPT ![c] =
                        IF filename \in DOMAIN files
                        THEN FileCall("get", filename, <<>>)
                        ELSE FileDone("get", filename, None, NoExc)]
        /\ UNCHANGED <<files, filePuts, fileKeys>>
        /\ FileUnchanged

\* evict, up to os.path.exists(path): with no file there it returns.
FileEvictExists(c) ==
    \E filename \in fileKeys :
        /\ fileOp[c].at = "idle"
        /\ fileOp' = [fileOp EXCEPT ![c] =
                        IF filename \in DOMAIN files
                        THEN FileCall("evict", filename, <<>>)
                        ELSE FileDone("evict", filename, None, NoExc)]
        /\ UNCHANGED <<files, filePuts, fileKeys>>
        /\ FileUnchanged

\* get, after the check: open(path, 'rb') and f.read().  open raises
\* FileNotFoundError for a file that is gone.
FileGetRead(c) ==
    LET filename == fileOp[c].filename IN
    /\ fileOp[c].at = "called" /\ fileOp[c].op = "get"
    /\ fileOp' = [fileOp EXCEPT ![c] =
                    IF filename \in DOMAIN files
                    THEN FileDone("get", filename, Some(files[filename]),
                                  NoExc)
                    ELSE FileDone("get", filename, None,
                                  "FileNotFoundError")]
    /\ UNCHANGED <<files, filePuts, fileKeys>>
    /\ FileUnchanged

\* evict, after the check: os.remove(path), which raises
\* FileNotFoundError for a file that is gone.
FileEvictRemove(c) ==
    LET filename == fileOp[c].filename IN
    /\ fileOp[c].at = "called" /\ fileOp[c].op = "evict"
    /\ files' = Pop(files, filename)
    /\ fileOp' = [fileOp EXCEPT ![c] =
                    IF filename \in DOMAIN files
                    THEN FileDone("evict", filename, None, NoExc)
                    ELSE FileDone("evict", filename, None,
                                  "FileNotFoundError")]
    /\ UNCHANGED <<filePuts, fileKeys>>
    /\ FileUnchanged

\* ------------------------------------------------------- PeerConnection

\* Two clients of the signaling server, each with one PeerConnection and
\* an event loop that runs a few coroutines.
Peers == {1, 2}
Tasks == {1, 2}

Other(p) == CHOOSE q \in Peers : q # p

\* MAX_CHUNK_SIZE_STRING and MAX_CHUNK_SIZE_BYTES, 2**15 in the source, and
\* the longest message sent, in characters or bytes.
MAX_CHUNK_SIZE_STRING == 1
MAX_CHUNK_SIZE_BYTES == 1
MaxMessage == 2

\* The send calls made on one connection.
MaxSends == 2

\* A bytes or str value.  The sentinel '__DONE__', a str no longer than a
\* chunk, is the one-character str "_".
Bytes(body) == [type |-> "bytes", body |-> body]
Str(body) == [type |-> "str", body |-> body]
DONE == Str(<<"_">>)

RECURSIVE Strings(_)
Strings(n) ==
    IF n = 0 THEN {<<>>}
    ELSE Strings(n - 1)
         \cup {Append(b, x) : b \in Strings(n - 1), x \in {"a", "_"}}

PeerMessages ==
    {Bytes(b) : b \in Strings(MaxMessage)} \cup {Str(b) : b \in Strings(MaxMessage)}

\* for i in range(0, len(message), chunk_size): message[i : min(i +
\* chunk_size, len(message))]
SendChunks(message) ==
    LET chunk_size == IF message.type = "str" THEN MAX_CHUNK_SIZE_STRING
                      ELSE MAX_CHUNK_SIZE_BYTES
        n == Len(message.body)
        starts == {i \in 0..(n - 1) : i % chunk_size = 0}
        Start(k) == (k - 1) * chunk_size
    IN  [k \in 1..Cardinality(starts) |->
            [type |-> message.type,
             body |-> SubSeq(message.body, Start(k) + 1,
                             IF Start(k) + chunk_size < n
                             THEN Start(k) + chunk_size ELSE n)]]

\* b''.join(messages) or ''.join(messages) of a non-empty list.
RECURSIVE JoinBodies(_)
JoinBodies(messages) ==
    IF messages = <<>> THEN <<>>
    ELSE Head(messages).body \o JoinBodies(Tail(messages))

\* The index of the first element of the queue equal to '__DONE__', 0 if
\* there is none.
FirstDone(queue) ==
    IF \E k \in 1..Len(queue) : queue[k] = DONE
    THEN CHOOSE k \in 1..Len(queue) :
            queue[k] = DONE /\ \A j \in 1..(k - 1) : queue[j] # DONE
    ELSE 0

\* What recv returns or raises for the elements it took off the queue
\* before '__DONE__': messages[0] of an empty list raises IndexError.
RecvResult(messages) ==
    IF messages = <<>> THEN [type |-> "IndexError", body |-> <<>>]
    ELSE [type |-> messages[1].type, body |-> JoinBodies(messages)]

\* PeerConnection.__init__.
NewPeer ==
    [handshake_success |-> "pending", local |-> "none", remote |-> "none",
     peer_uuid |-> 0, channel |-> FALSE, listening |-> FALSE,
     state |-> "new", send_lock |-> 0, message_queue |-> <<>>,
     calls |-> <<>>, recvd |-> <<>>, error |-> FALSE, raised |-> FALSE]

\* An established connection: peer 1 made the offer, peer 2 answered it and
\* the channel has opened on both sides.
Established(local, remote, peer_uuid) ==
    [NewPeer EXCEPT !.handshake_success = "result", !.local = local,
                    !.remote = remote, !.peer_uuid = peer_uuid,
                    !.channel = TRUE, !.listening = TRUE,
                    !.state = "connected"]

EstablishedPeers ==
    [p \in Peers |-> IF p = 1 THEN Established("offer", "answer", 2)
                     ELSE Established("answer", "offer", 1)]

\* A coroutine that runs no call; exc is what its last call raised.
TaskDone(op, exc) ==
    [op |-> op, at |-> "done", call |-> 0, i |-> 0, timeout |-> None,
     exc |-> exc]

NoTask == TaskDone("none", NoExc)

PeerUnchanged == UNCHANGED <<plane, life, close_future, exits, filesys, pubsub>>

\* send_offer(peer_uuid): the connection creates the data channel with its
\* handlers and sends its offer through the signaling server.  One of the
\* two clients makes the offer.
send_offer(p) ==
    /\ \A r \in Peers : peers[r].local = "none" /\ peers[r].state = "new"
    /\ peers' = [peers EXCEPT ![p].channel = TRUE, ![p].listening = TRUE,
                              ![p].local = "offer"]
    /\ signaling' = signaling \cup
                       {[to |-> Other(p), source |-> p, type |-> "offer"]}
    /\ UNCHANGED <<tasks, wire>>
    /\ PeerUnchanged

\* The signaling server has an error message for a client.
ServerError(p) ==
    /\ ~peers[p].error
    /\ \A m \in signaling : ~(m.to = p /\ m.type = "error")
    /\ signaling' = signaling \cup {[to |-> p, source |-> 0, type |-> "error"]}
    /\ UNCHANGED <<peers, tasks, wire>>
    /\ PeerUnchanged

\* set_result and set_exception of a future that is not pending raise
\* InvalidStateError in the caller and leave the future as it is.
Resolve(peer, outcome) ==
    IF peer.handshake_success = "pending"
    THEN [peer EXCEPT !.handshake_success = outcome]
    ELSE [peer EXCEPT !.raised = TRUE]

\* handle_server_message(message) for a message the signaling server
\* delivers: an error fails the handshake, an offer is taken as the remote
\* description and answered with send_answer(message.source_uuid), an
\* answer is taken as the remote description.
handle_server_message(p) ==
    \E message \in signaling :
        /\ message.to = p
        /\ peers[p].state # "closed"
        /\ peers' = [peers EXCEPT ![p] =
              IF message.type = "error"
              THEN [Resolve(@, "exception") EXCEPT !.error = TRUE]
              ELSE IF message.type = "offer"
              THEN [@ EXCEPT !.remote = "offer",
                             !.peer_uuid = message.source,
                             !.local = "answer"]
              ELSE [@ EXCEPT !.remote = "answer",
                             !.peer_uuid = message.source]]
        /\ signaling' = (signaling \ {message}) \cup
              (IF message.type = "offer"
               THEN {[to |-> message.source, source |-> p, type |-> "answer"]}
               ELSE {})
        /\ UNCHANGED <<tasks, wire>>
        /\ PeerUnchanged

\* Both descriptions are exchanged: the client that made the offer has
\* taken the answer.
Negotiated == \E o \in Peers : peers[o].local = "offer" /\ peers[o].remote = "answer"

\* The data channel opens at a peer: on_open of the channel it created, or
\* on_datachannel, which keeps the channel, resolves the handshake and
\* then registers the handlers of the channel.
ChannelOpen(p) ==
    /\ Negotiated
    /\ peers[p].state = "new"
    /\ peers' = [peers EXCEPT ![p] =
          LET opened == [Resolve(@, "result") EXCEPT !.state = "connected",
                                                    !.channel = TRUE]
          IN  IF @.local = "answer" /\ @.handshake_success = "pending"
              THEN [opened EXCEPT !.listening = TRUE]
              ELSE opened]
    /\ UNCHANGED <<tasks, signaling, wire>>
    /\ PeerUnchanged

\* What asyncio.wait_for(self._handshake_success, timeout) does for a
\* future that is done: the result, the exception set by
\* handle_server_message, or CancelledError for a cancelled future.
Awaited(future) ==
    IF future = "result" THEN NoExc
    ELSE IF future = "exception" THEN "PeerConnectionError"
    ELSE "CancelledError"

\* A coroutine of peer p calls ready(timeout).
ReadyCall(p, t) ==
    \E timeout \in {None, Some(30)} :
        /\ tasks[p][t].at = "done"
        /\ tasks' = [tasks EXCEPT ![p][t] =
              [op |-> "ready", at |-> "wait", call |-> 0, i |-> 0,
               timeout |-> timeout, exc |-> NoExc]]
        /\ UNCHANGED <<peers, signaling, wire>>
        /\ PeerUnchanged

\* A coroutine of peer p calls send(message), with the default timeout:
\* it starts with await self.ready(timeout).
SendCall(p, t, message) ==
    /\ tasks[p][t].at = "done"
    /\ Len(peers[p].calls) < MaxSends
    /\ peers' = [peers EXCEPT ![p].calls = Append(@, message)]
    /\ tasks' = [tasks EXCEPT ![p][t] =
          [op |-> "send", at |-> "wait", call |-> Len(peers[p].calls) + 1,
           i |-> 0, timeout |-> Some(30), exc |-> NoExc]]
    /\ UNCHANGED <<signaling, wire>>
    /\ PeerUnchanged

\* A coroutine of peer p calls close(): it starts with the send lock.
CloseCall(p, t) ==
    /\ tasks[p][t].at = "done"
    /\ peers[p].state # "closed"
    /\ tasks' = [tasks EXCEPT ![p][t] =
          [op |-> "close", at |-> "lock", call |-> 0, i |-> 0,
           timeout |-> None, exc |-> NoExc]]
    /\ UNCHANGED <<peers, signaling, wire>>
    /\ PeerUnchanged

\* ready finds the handshake future done: it returns or raises, and a send
\* goes on to the send lock.
Ready(p, t) ==
    LET exc == Awaited(peers[p].handshake_success) IN
    /\ tasks[p][t].at = "wait"
    /\ peers[p].handshake_success # "pending"
    /\ tasks' = [tasks EXCEPT ![p][t] =
          IF @.op = "send" /\ exc = NoExc
          THEN [@ EXCEPT !.at = "lock"]
          ELSE [TaskDone(@.op, exc) EXCEPT !.call = tasks[p][t].call]]
    /\ UNCHANGED <<peers, signaling, wire>>
    /\ PeerUnchanged

\* The timeout of ready passes with the handshake future pending:
\* wait_for cancels the future it waits for and raises TimeoutError, which
\* ready turns into PeerConnectionTimeout.
ReadyTimeout(p, t) ==
    /\ tasks[p][t].at = "wait"
    /\ tasks[p][t].timeout # None
    /\ peers[p].handshake_success = "pending"
    /\ peers' = [peers EXCEPT ![p].handshake_success = "cancelled"]
    /\ tasks' = [tasks EXCEPT ![p][t] =
          [TaskDone(@.op, "PeerConnectionTimeout") EXCEPT
              !.call = tasks[p][t].call]]
    /\ UNCHANGED <<signaling, wire>>
    /\ PeerUnchanged

\* A send that takes no lock.
AcquireNoLock(p, t) ==
    /\ tasks[p][t].at = "lock"
    /\ tasks[p][t].op = "send" \/ peers[p].send_lock = 0
    /\ peers' = [peers EXCEPT ![p].send_lock =
                    IF tasks[p][t].op = "send" THEN @ ELSE t]
    /\ tasks' = [tasks EXCEPT ![p][t].at = "locked"]
    /\ UNCHANGED <<signaling, wire>>
    /\ PeerUnchanged

\* async with self._send_lock, in send and in close: the coroutine goes on
\* when no other holds the lock.
Acquire(p, t) ==
    /\ tasks[p][t].at = "lock"
    /\ peers[p].send_lock = 0
    /\ peers' = [peers EXCEPT ![p].send_lock = t]
    /\ tasks' = [tasks EXCEPT ![p][t].at = "locked"]
    /\ UNCHANGED <<signaling, wire>>
    /\ PeerUnchanged

\* Leaving async with releases the lock the coroutine holds.
Release(peer, t) == IF peer.send_lock = t THEN [peer EXCEPT !.send_lock = 0] ELSE peer

\* self._channel.send(chunk) of peer p in its n-th send call: the chunk goes
\* on the channel and, in order, to the message queue of the other peer if
\* that one handles the messages of the channel.
ChannelSend(p, n, chunk) ==
    /\ wire' = [wire EXCEPT ![p] =
                   Append(@, [call |-> n, chunk |-> chunk, last |-> FALSE])]
    /\ peers' = [q \in Peers |->
          IF q = p THEN peers[p]
          ELSE IF peers[q].listening
          THEN [peers[q] EXCEPT !.message_queue = Append(@, chunk)]
          ELSE peers[q]]

\* One turn of the loop in send: the next chunk is sent.  The coroutine
\* may wait for _buffer_low before the chunk and others run meanwhile.  A
\* channel that is not open raises InvalidStateError, which ends the send
\* and releases the lock.
SendChunk(p, t) ==
    LET task == tasks[p][t]
        chunks == SendChunks(peers[p].calls[task.call])
    IN  /\ task.op = "send" /\ task.at = "locked"
        /\ task.i < Len(chunks)
        /\ IF peers[p].state = "connected"
           THEN /\ ChannelSend(p, task.call, chunks[task.i + 1])
                /\ tasks' = [tasks EXCEPT ![p][t].i = @ + 1]
           ELSE /\ peers' = [peers EXCEPT ![p] = Release(@, t)]
                /\ tasks' = [tasks EXCEPT ![p][t] =
                      [TaskDone("send", "InvalidStateError") EXCEPT
                          !.call = task.call]]
                /\ UNCHANGED wire
        /\ UNCHANGED signaling
        /\ PeerUnchanged

\* The end of send: after the last chunk, self._channel.send('__DONE__')
\* and the release of the lock.
SendDone(p, t) ==
    LET task == tasks[p][t]
        chunks == SendChunks(peers[p].calls[task.call])
    IN  /\ task.op = "send" /\ task.at = "locked"
        /\ task.i = Len(chunks)
        /\ IF peers[p].state = "connected"
           THEN /\ wire' = [wire EXCEPT ![p] =
                      Append(@, [call |-> task.call, chunk |-> DONE,
                                 last |-> TRUE])]
                /\ peers' = [q \in Peers |->
                      IF q = p THEN Release(peers[p], t)
                      ELSE IF peers[q].listening
                      THEN [peers[q] EXCEPT !.message_queue = Append(@, DONE)]
                      ELSE peers[q]]
                /\ tasks' = [tasks EXCEPT ![p][t] =
                      [TaskDone("send", NoExc) EXCEPT !.call = task.call]]
           ELSE /\ peers' = [peers EXCEPT ![p] = Release(@, t)]
                /\ tasks' = [tasks EXCEPT ![p][t] =
                      [TaskDone("send", "InvalidStateError") EXCEPT
                          !.call = task.call]]
                /\ UNCHANGED wire
        /\ UNCHANGED signaling
        /\ PeerUnchanged

\* The end of close: with the lock held the buffers are flushed and the
\* RTCPeerConnection is closed; then the lock is released.
CloseDone(p, t) ==
    /\ tasks[p][t].op = "close" /\ tasks[p][t].at = "locked"
    /\ peers' = [peers EXCEPT ![p] = [Release(@, t) EXCEPT !.state = "closed"]]
    /\ tasks' = [tasks EXCEPT ![p][t] = TaskDone("close", NoExc)]
    /\ UNCHANGED <<signaling, wire>>
    /\ PeerUnchanged

\* recv: the elements of the message queue up to the first that equals
\* '__DONE__' are taken and joined.  Without such an element recv waits.
Recv(p) ==
    LET queue == peers[p].message_queue
        k == FirstDone(queue)
    IN  /\ k > 0
        /\ peers' = [peers EXCEPT
              ![p].message_queue = SubSeq(queue, k + 1, Len(queue)),
              ![p].recvd = Append(@, RecvResult(SubSeq(queue, 1, k - 1)))]
        /\ UNCHANGED <<tasks, signaling, wire>>
        /\ PeerUnchanged

\* ------------------------------------------ StreamProducer / Consumer

\* Producers that send to one topic through one Store, and one consumer.
Producers == {1, 2}

\* The objects sent in a run.
MaxObjects == 3

\* No send in progress; exc is what the last send raised.
SendOver(exc) == [at |-> "idle", key |-> 0, evict |-> FALSE, exc |-> exc]

NoSend == SendOver(NoExc)

StreamUnchanged == UNCHANGED <<plane, life, close_future, exits, filesys, p2p>>

\* A send that goes on to publish when its put has raised, under a key
\* the Store was not given.
SendPutAnyway(p) ==
    \E obj \in {Payload(1), Payload(2)}, evict \in BOOLEAN, ok \in BOOLEAN :
        LET key == Cardinality(DOMAIN objects) + 1 IN
        /\ producer[p].at = "idle"
        /\ Cardinality(DOMAIN objects) < MaxObjects
        /\ objects' = IF ok THEN Store(objects, key, [obj |-> obj, by |-> p,
                                                      held |-> TRUE])
                      ELSE objects
        /\ producer' = [producer EXCEPT ![p] =
              [at |-> "stored", key |-> key, evict |-> evict, exc |-> NoExc]]
        /\ UNCHANGED <<events, consumer>>
        /\ StreamUnchanged

\* StreamProducer.send, its first statement: key = self._store.put(obj).
\* The Store holds the object under a new key, or put raises and the send
\* ends there.
SendPut(p) ==
    \E obj \in {Payload(1), Payload(2)}, evict \in BOOLEAN, ok \in BOOLEAN :
        LET key == Cardinality(DOMAIN objects) + 1 IN
        /\ producer[p].at = "idle"
        /\ Cardinality(DOMAIN objects) < MaxObjects
        /\ IF ok
           THEN /\ objects' = Store(objects, key, [obj |-> obj, by |-> p,
                                                    held |-> TRUE])
                /\ producer' = [producer EXCEPT ![p] =
                      [at |-> "stored", key |-> key, evict |-> evict,
                       exc |-> NoExc]]
           ELSE /\ producer' = [producer EXCEPT ![p] = SendOver("StoreError")]
                /\ UNCHANGED objects
        /\ UNCHANGED <<events, consumer>>
        /\ StreamUnchanged

\* StreamProducer.send, the rest: the event is made from the key and
\* self._publisher.send(topic, message) publishes it, or raises.
SendPublish(p) ==
    \E ok \in BOOLEAN :
        /\ producer[p].at = "stored"
        /\ events' = IF ok
                     THEN Append(events, [key |-> producer[p].key,
                                          evict |-> producer[p].evict,
                                          by |-> p])
                     ELSE events
        /\ producer' = [producer EXCEPT ![p] =
              SendOver(IF ok THEN NoExc ELSE "PublisherError")]
        /\ UNCHANGED <<objects, consumer>>
        /\ StreamUnchanged

\* StreamConsumer.next: the next message of the subscriber becomes a proxy
\* of the key of its event.
ConsumerNext ==
    /\ Len(consumer) < Len(events)
    /\ consumer' = Append(consumer,
                           [key |-> events[Len(consumer) + 1].key,
                            evict |-> events[Len(consumer) + 1].evict,
                            resolved |-> FALSE])
    /\ UNCHANGED <<objects, events, producer>>
    /\ StreamUnchanged

\* A proxy the consumer returned is resolved: the object is read from the
\* Store and, for an event with evict set, evicted.
ProxyResolve ==
    \E k \in 1..Len(consumer) :
        /\ ~consumer[k].resolved
        /\ consumer[k].key \in DOMAIN objects
        /\ consumer' = [consumer EXCEPT ![k].resolved = TRUE]
        /\ objects' = [objects EXCEPT ![consumer[k].key].held =
                          IF consumer[k].evict THEN FALSE ELSE @]
        /\ UNCHANGED <<events, producer>>
        /\ StreamUnchanged

\* ------------------------------------------------------- wait_for_server

\* Times are in milliseconds since `start = time.time()`.

\* poller.poll(100): the longest one poll waits for the reply.
PollMs == 100

\* The timeouts of the calls studied (0.01 s is the one of the tests).
Timeouts == {0, 10, 100, 150, 250}

\* When the reply to the ping reaches the socket, where a server listens.
Arrivals == {5, 50, 100, 105, 120, 200, 260, 400}

\* What the statements between two readings of the clock may take.
Delays == {0, 5}

\* A wait_for_server(address, port, timeout) that has sent its ping and is
\* about to test its loop condition at time now; the reply, if a server
\* listens, reaches the socket at time at.
Wait(timeout, listening, at, now) ==
    [timeout |-> timeout, listening |-> listening, at |-> at, now |-> now,
     out |-> "waiting"]

\* A wait loop that polls again whatever the clock says.
WaitPollForever ==
    /\ wfs.out = "waiting"
    /\ IF wfs.listening /\ wfs.at <= wfs.now + PollMs
       THEN wfs' = [wfs EXCEPT !.out = "returned",
                               !.now = IF wfs.at > wfs.now THEN wfs.at
                                       ELSE wfs.now]
       ELSE \E d \in Delays :
               /\ wfs.now < wfs.timeout + PollMs + PollMs
               /\ wfs' = [wfs EXCEPT !.now = wfs.now + PollMs + d]
    /\ UNCHANGED <<plane, limit, proc, conn, server, others>>

\* One turn of the loop of wait_for_server: the time spent is still less
\* than the timeout, so it polls for PollMs; a reply that is there by the
\* end of the poll is received and the call returns, otherwise the loop
\* condition is tested again.
WaitPoll ==
    /\ wfs.out = "waiting"
    /\ wfs.now < wfs.timeout
    /\ IF wfs.listening /\ wfs.at <= wfs.now + PollMs
       THEN wfs' = [wfs EXCEPT !.out = "returned",
                               !.now = IF wfs.at > wfs.now THEN wfs.at
                                       ELSE wfs.now]
       ELSE \E d \in Delays :
               wfs' = [wfs EXCEPT !.now = wfs.now + PollMs + d]
    /\ UNCHANGED <<plane, limit, proc, conn, server, others>>

\* The loop condition fails: wait_for_server raises ServerTimeoutError.
WaitRaise ==
    /\ wfs.out = "waiting"
    /\ ~(wfs.now < wfs.timeout)
    /\ wfs' = [wfs EXCEPT !.out = "ServerTimeoutError"]
    /\ UNCHANGED <<plane, limit, proc, conn, server, others>>

\* --------------------------------------------------------------- claims

\* The objects a put_batch of n objects stores when it starts in this state.
Objs(n) == [i \in 1..n |-> Payload(nextId + i - 1)]

\* C1: round trip.  In every state, a put of a payload b without a key that
\* returns, followed by a get (from any connector) of the value the put
\* returned, yields b.
C1_RoundTrip ==
    \A c \in Connectors, c2 \in Connectors :
        LET b == Payload(nextId)
            p == PutCall(data, c, nextId, b, NoKey)
            g == GetCall(p.data, c2, p.ret)
        IN  (p.exception = NoExc /\ ~p.block)
                => (g.exception = NoExc /\ ~g.block /\ g.ret = Some(b))

\* C2: in every state, a put that returns, given a key or not, returns the
\* key it built: the fresh object id, the length of the payload, the
\* connector's address, the stream_id of the key it was given (none when it
\* was given no key); exists on the returned key then answers true, and the
\* returned value is neither None nor the key the caller passed.
C2_PutReturnsBuiltKey ==
    \A c \in Connectors, key \in keys \cup {NoKey} :
        LET b == Payload(nextId)
            p == PutCall(data, c, nextId, b, key)
            e == ExistsCall(p.data, c, p.ret)
        IN  (p.exception = NoExc /\ ~p.block)
                => /\ p.ret # NoKey
                   /\ p.ret # key
                   /\ p.ret.obj_id = nextId
                   /\ p.ret.size = Len(b)
                   /\ p.ret.peer = Address(c)
                   /\ p.ret.stream_id = (IF key = NoKey THEN 0
                                         ELSE key.stream_id)
                   /\ e.exception = NoExc
                   /\ e.ret = Some(TRUE)

\* The standalone key of the object id: what evict(k) was called with.
StandaloneKey(id) == CHOOSE k \in keys : k.obj_id = id /\ k.stream_id = 0

\* C3: for every standalone key k whose evict has returned and whose object
\* id no later put has stored again, exists(k) answers false and get(k)
\* answers None, whichever connector asks.
C3_EvictedIsGone ==
    \A id \in evicted, c \in Connectors :
        LET k == StandaloneKey(id)
            e == ExistsCall(data, c, k)
            g == GetCall(data, c, k)
        IN  /\ e.exception = NoExc /\ e.ret = Some(FALSE)
            /\ g.exception = NoExc /\ ~g.block /\ g.ret = None

\* C3 witness: a standalone object was stored, a connector read it back with
\* its payload intact, and its key has been evicted since.
C3_Witness ==
    \E id \in evicted :
        /\ id \notin DOMAIN data
        /\ \E k \in keys : k.obj_id = id /\ k.stream_id = 0 /\ k.size = id

\* C4: batch order.  In every state, put_batch of n >= 1 payloads without a
\* stream key returns n keys, the i-th built for the i-th payload, and
\* get_batch of those keys (from any connector) returns the payloads in the
\* same order.
C4_BatchOrder ==
    \A c \in Connectors, c2 \in Connectors, n \in 1..MaxBatch :
        LET p == PutBatchCall(data, c, nextId, Objs(n), NoKey)
            g == GetBatchCall(p.data, c2, p.ret)
        IN  ~p.block
                => /\ p.exception = NoExc
                   /\ Len(p.ret) = n
                   /\ \A i \in 1..Len(p.ret) : p.ret[i].size = Len(Objs(n)[i])
                   /\ g.exception = NoExc
                   /\ g.ret = [i \in 1..n |-> Some(Objs(n)[i])]

\* No id occurs twice in the sequence.
NoDuplicates(ids) ==
    \A i \in 1..Len(ids), j \in 1..Len(ids) : ids[i] = ids[j] => i = j

\* C5: a put_batch of n objects sends n put requests in all, and no stream
\* of the store lists an object id more than once.
C5_BatchIsRepeatedPut ==
    /\ \A c \in Connectors :
          call[c].op = "put_batch" => call[c].total = Len(call[c].objs)
    /\ \A sid \in DOMAIN data :
          data[sid].stream => NoDuplicates(data[sid].proxy_uuids)

\* The puts of stream sid that connector c has read so far are the first
\* ones the stream accepted, in the order it accepted them.
ReadsInOrder(c, sid) ==
    /\ Len(reads[c][sid]) <= Len(putLog[sid])
    /\ \A i \in 1..Len(reads[c][sid]) :
          reads[c][sid][i] = Some(putLog[sid][i])

\* C6: stream ordering.  For every stream that has not been ended and every
\* client, the results of the client's successive gets on the stream are the
\* payloads put to the stream, in the order the server handled the puts,
\* each once: the i-th get returned the i-th put, and the client's cursor
\* counts the gets.
C6_StreamOrder ==
    \A sid \in DOMAIN data, c \in Connectors :
        (data[sid].stream /\ ~data[sid].ended)
            => /\ ReadsInOrder(c, sid)
               /\ Cursor(data, sid, ClientId(c)) = Len(reads[c][sid])

\* C6 witness: a client has read two payloads of an open stream, the first
\* put first and the second put second.
C6_Witness ==
    \E sid \in DOMAIN data, c \in Connectors :
        /\ data[sid].stream /\ ~data[sid].ended
        /\ Len(putLog[sid]) >= 2
        /\ putLog[sid][1] # putLog[sid][2]
        /\ reads[c][sid] = <<Some(putLog[sid][1]), Some(putLog[sid][2])>>

\* Connector c's cursor in stream sid advances in this step.
Advances(c, sid) == Len(reads'[c][sid]) = Len(reads[c][sid]) + 1

\* C7: cursor independence.  A get that advances one client in a stream
\* leaves the cursor and the reads of every other client as they were, and
\* what it returns (the stream not being ended) is the put that follows the
\* client's own earlier reads, whatever the other clients have read.
C7_CursorIndependence ==
    [][\A c \in Connectors, sid \in Ids :
          Advances(c, sid)
              => /\ \A c2 \in Connectors \ {c} :
                       /\ reads'[c2][sid] = reads[c2][sid]
                       /\ Cursor(data', sid, ClientId(c2))
                              = Cursor(data, sid, ClientId(c2))
                 /\ ~data[sid].ended
                       => reads'[c][sid]
                              = Append(reads[c][sid],
                                       Some(putLog[sid][Len(reads[c][sid]) + 1]))
      ]_vars

\* C7 witness: two clients have read different numbers of payloads of the
\* same open stream, each from the first payload on.
C7_Witness ==
    \E sid \in DOMAIN data, c \in Connectors, c2 \in Connectors :
        /\ data[sid].stream /\ ~data[sid].ended
        /\ Len(reads[c][sid]) = 2
        /\ Len(reads[c2][sid]) = 1
        /\ ReadsInOrder(c, sid)
        /\ ReadsInOrder(c2, sid)

\* C8: stream end.  For every stream an evict has ended and every client that
\* had read all of its payloads by then, a get of the client on the stream
\* key returns the end-of-stream result None: it raises nothing and does not
\* wait.
C8_EndOfStream ==
    \A e \in ended :
        \A c \in e.drained :
            LET g == GetCall(data, c, CreateStreamCall(c, e.stream)) IN
            g.exception = NoExc /\ ~g.block /\ g.ret = None

\* C9: cascading evict.  In every state, an evict that returns for a key
\* with a stream_id leaves the store without an entry for the stream_id,
\* for the object id of the key and for every object id of the stream, and
\* exists then answers false for every such object id.
C9_CascadingEvict ==
    \A c \in Connectors, key \in keys :
        LET e == EvictCall(data, c, key) IN
        (key.stream_id # 0 /\ e.exception = NoExc)
            => /\ key.stream_id \notin DOMAIN e.data
               /\ key.obj_id \notin DOMAIN e.data
               /\ \A id \in Range(data[key.stream_id].proxy_uuids) :
                     /\ id \notin DOMAIN e.data
                     /\ ExistsCall(e.data, c,
                                   DIMKey(id, id, Address(c), key.stream_id)).ret
                            = Some(FALSE)

\* The requests connectors can send in this state: get, exists and evict of
\* the keys built so far, and put under a key built for the next object.
Requests ==
    {RPC(op, k, None, ClientId(c)) :
        op \in {"get", "exists", "evict"}, k \in keys, c \in Connectors}
    \cup
    {RPC("put", DataKey(c, nextId, Payload(nextId), k),
         Some(Payload(nextId)), 0) :
        k \in keys \cup {NoKey}, c \in Connectors}

\* C10: failure isolation.  In every state and for every request whose
\* handler raises, handle_rpc returns a response with the exception and the
\* operation and key of the request, and leaves the store, which is all the
\* server keeps between requests, as it was before the request.
C10_FailureIsolation ==
    \A rpc \in Requests :
        LET h == handle_rpc(data, rpc) IN
        h.response.exception # NoExc
            => /\ h.response.operation = rpc.operation
               /\ h.response.key = rpc.key
               /\ ~h.block
               /\ h.data = data

\* C10 witness: the store holds an ended stream, a put to it raises and an
\* evict of a stream the store does not hold raises.
C10_Witness ==
    /\ \E id \in DOMAIN data : data[id].stream /\ data[id].ended
    /\ \E rpc \in Requests :
          /\ rpc.operation = "put"
          /\ handle_rpc(data, rpc).response.exception = "InvalidStateError"
    /\ \E rpc \in Requests :
          /\ rpc.operation = "evict"
          /\ handle_rpc(data, rpc).response.exception = "KeyError"

\* The messages a server can receive in this state.
Messages == {Ping, Undecodable} \cup {Request(rpc) : rpc \in Requests}

\* C11: the server loop.  No server process ends by itself, and a serving
\* loop answers every message it receives, a liveness request, an RPC or
\* bytes that are no RPC, with one reply and goes on serving.
C11_ServerKeepsServing ==
    /\ \A p \in Connectors : proc[p] # "crashed"
    /\ \A msg \in Messages :
          (Up /\ ~blocked)
              => LET r == run_server(data, msg) IN
                 r.alive /\ ~r.block /\ r.reply # None

\* C12: error propagation.  In every state, every call of a connector that
\* comes to an end either returns, the response carrying no exception, or
\* raises the exception of the response to one of its requests; it raises
\* nothing else.
C12_RaisesWhatTheServerRaised ==
    \A c \in Connectors :
        /\ \A key \in keys \cup {NoKey} :
              LET p == PutCall(data, c, nextId, Payload(nextId), key)
                  g == GetCall(data, c, key)
              IN  /\ p.exception = p.response.exception
                  /\ g.exception = g.response.exception
        /\ \A key \in keys :
              LET e == ExistsCall(data, c, key)
                  v == EvictCall(data, c, key)
              IN  /\ e.exception = e.response.exception
                  /\ v.exception = v.response.exception
        /\ \A key \in keys \cup {NoKey}, n \in 1..MaxBatch :
              LET b == BatchKeys(c, nextId, Objs(n), key)
                  r == SendRpcs(data, BatchRpcs(b.keys, Objs(n)))
              IN  b.exception = NoExc /\ r.exception = r.failed.exception
        /\ \A ks \in [1..MaxBatch -> keys] :
              LET r == SendRpcs(data, [i \in 1..MaxBatch |->
                                  RPC("get", ks[i], None, ClientId(c))])
              IN  r.exception = r.failed.exception

\* C13: liveness discovery.  A connector constructed where a server answers
\* the probe (it is ready and self.server is None) has started no server
\* process, and what either of two ready connectors puts, the other gets
\* back with the value the put returned.
C13_AttachSharesStore ==
    /\ \A c \in Connectors :
          (conn[c] = "ready" /\ server[c] = 0) => proc[c] = "none"
    /\ \A c \in Connectors, c2 \in Connectors :
          (c # c2 /\ conn[c] = "ready" /\ conn[c2] = "ready" /\ Pong
             /\ (server[c] = 0 \/ server[c2] = 0))
              => LET b == Payload(nextId)
                     p == PutCall(data, c, nextId, b, NoKey)
                     g == GetCall(p.data, c2, p.ret)
                 IN  /\ p.exception = NoExc
                     /\ g.exception = NoExc
                     /\ g.ret = Some(b)

\* A server process that has been started and has not ended.
Alive(p) == proc[p] \in {"starting", "running"}

\* C14: one server per port.  At no time are two server processes started
\* and not ended, nor do two ready connectors own such a process.
C14_OneServer ==
    /\ Cardinality({p \in Connectors : Alive(p)}) <= 1
    /\ Cardinality({c \in Connectors :
                      conn[c] = "ready" /\ server[c] # 0 /\ Alive(server[c])})
           <= 1

\* close has returned (or, waiting in join, will not return).
Closed(c) == conn[c] \in {"closed(True)", "closed(False)", "closing"}

C16_OwningClose ==
    [][\A c \in Connectors :
          (conn[c] = "ready" /\ server[c] # 0 /\ proc[server[c]] = "running")
              => /\ conn'[c] = "closed(True)"
                       => /\ proc'[server[c]] = "terminated"
                          /\ ~Up'
                          /\ ~Pong'
                 /\ conn'[c] = "closed(False)"
                       => /\ proc' = proc
                          /\ data' = data
                          /\ Up'
      ]_vars

\* C16 witness: the spawning connector has returned from
\* close(kill_server=True), its process is terminated and nothing answers.
C16_Witness ==
    \E c \in Connectors :
        /\ conn[c] = "closed(True)"
        /\ server[c] = c
        /\ proc[c] = "terminated"
        /\ ~Pong

\* C17: construction.  A construction completes only in a step in which a
\* server answers the liveness request, owning nothing after the first
\* probe and the process it started after the second; it goes on to spawn
\* only when the first probe is not answered; and it fails, with
\* ServerTimeoutError, only when the probe after the spawn is not answered
\* either.
C17_Construction ==
    [][\A c \in Connectors :
          (conn[c] \in {"new", "spawned"} /\ conn'[c] # conn[c])
              => \/ /\ conn'[c] = "ready"
                    /\ Pong
                    /\ server'[c] = (IF conn[c] = "new" THEN 0 ELSE c)
                 \/ /\ conn[c] = "new"
                    /\ conn'[c] = "spawned"
                    /\ ~Pong
                    /\ proc'[c] = "starting"
                 \/ /\ conn[c] = "spawned"
                    /\ conn'[c] = "failed"
                    /\ ~Pong
      ]_vars

\* C17 witness: one construction has failed and another has completed with
\* the server it spawned.
C17_Witness ==
    \E c \in Connectors, c2 \in Connectors :
        /\ conn[c] = "failed"
        /\ conn[c2] = "ready" /\ server[c2] = c2 /\ proc[c2] = "running"

\* The server holds nothing for the key: no entry for its object id when it
\* is standalone, no stream for its stream_id when it is a stream key.
Absent(d, key) ==
    IF key.stream_id = 0 THEN key.obj_id \notin DOMAIN d
    ELSE key.stream_id \notin DOMAIN d

\* C19: absence is not an error.  In every state, get of a key the server
\* holds nothing for raises nothing and returns None, and get_batch returns
\* None at the position of every such key.
C19_AbsentIsNone ==
    \A c \in Connectors, key \in keys :
        Absent(data, key)
            => LET g == GetCall(data, c, key)
                   gb == GetBatchCall(data, c, <<key>>)
               IN  /\ g.exception = NoExc /\ g.ret = None
                   /\ gb.exception = NoExc /\ gb.ret = <<None>>

\* The wait_for_server call is over.
WaitOver == wfs.out \in {"returned", "ServerTimeoutError"}

FailsNext(c) ==
    /\ pc[c] = "send"
    /\ call[c].op = "put_batch"
    /\ Up /\ ~blocked
    /\ LET x == Exchange(data, BatchRpcs(call[c].built, call[c].objs)
                                   [call[c].sent + 1])
       IN  x.exception # NoExc /\ ~x.block

\* The step is the next turn of connector c's batch.
TakesTurn(c) == pc[c] = "send" /\ call'[c] # call[c]

\* The object ids the requests already answered of c's batch wrote.
Written(c) ==
    {BatchRpcs(call[c].built, call[c].objs)[j].key.obj_id :
        j \in 1..call[c].sent}

\* The turn that fails leaves the store as it was and ends the call, which
\* raises the exception of the response and returns no keys: _send_rpcs
\* rolls nothing back and sends no further request.
NoRollback ==
    [][\A c \in Connectors :
          (FailsNext(c) /\ TakesTurn(c))
              => LET rpcs == BatchRpcs(call[c].built, call[c].objs)
                     rest == [j \in 1..(call[c].total - call[c].sent) |->
                                rpcs[call[c].sent + j]]
                     r == SendRpcs(data, rest)
                 IN  /\ pc'[c] = "idle" /\ call'[c] = NoCall /\ keys' = keys
                     /\ r.exception = r.failed.exception
                     /\ r.exception # NoExc
                     /\ r.data = data
                     /\ data' = data
      ]_vars

C21_EvictAtomic ==
    \A e \in ended :
        \A c \in Connectors, k \in keys :
            k.stream_id = e.stream
                => ExistsCall(data, c, k).ret = Some(FALSE)

\* C24: evicting what is absent.  In every state, evict and close_stream of
\* a key the server holds nothing for, standalone or stream, return without
\* an exception and leave the store as it is.
C24_EvictAbsent ==
    \A c \in Connectors, key \in keys :
        Absent(data, key)
            => LET e == EvictCall(data, c, key)
                   cs == CloseStreamCall(data, c, key)
               IN  /\ e.exception = NoExc /\ e.data = data
                   /\ key.stream_id # 0
                         => cs.exception = NoExc /\ cs.data = data

\* C29: in every state, every object id in the sequence of a stream that is
\* in the store has a payload entry in the store.
C29_PacketsPresent ==
    \A sid \in DOMAIN data :
        data[sid].stream
            => \A i \in 1..Len(data[sid].proxy_uuids) :
                  /\ data[sid].proxy_uuids[i] \in DOMAIN data
                  /\ ~data[data[sid].proxy_uuids[i]].stream

\* Connector c is inside a batch call of more than one request.
InBatch(c) ==
    /\ pc[c] \in {"send", "wait"}
    /\ call[c].op \in {"put_batch", "get_batch"}
    /\ call[c].total > 1

\* C22 as stated: batch pipelining.  Once a batch call has a response,
\* every request of the batch has been sent.
C22_Pipelined ==
    \A c \in Connectors :
        (InBatch(c) /\ call[c].sent >= 1) => Issued(c) = call[c].total

\* C22: batches are sent one request at a time.  A batch call has at most
\* one request without its response, the next in order, and the objects of
\* the put requests it has not come to are not in the store.
C22_OneAtATime ==
    \A c \in Connectors :
        InBatch(c)
            => /\ Issued(c) <= call[c].sent + 1
               /\ Issued(c) <= call[c].total
               /\ call[c].op = "put_batch"
                     => \A k \in Range(call[c].built) :
                           k.obj_id \in DOMAIN data
                               => k.obj_id \in Written(c)

\* C22 witness: a put_batch of two objects has the response to its first
\* request; the second object is not stored.
C22_Witness ==
    \E c \in Connectors :
        /\ InBatch(c)
        /\ call[c].op = "put_batch"
        /\ call[c].sent = 1
        /\ call[c].built[2].obj_id \notin DOMAIN data

\* Every request a server can be sent in this state: those of the
\* connectors, a put without data and a request of an unknown operation.
AnyRequests ==
    Requests
    \cup {RPC("put", k, None, 0) : k \in keys}
    \cup {RPC("stat", k, None, 0) : k \in keys}

\* The responses of a batch answer its requests position by position.
InOrder(rpcs, r) ==
    (r.exception = NoExc /\ ~r.block)
        => /\ Len(r.responses) = Len(rpcs)
           /\ \A i \in 1..Len(rpcs) :
                 /\ r.responses[i].operation = rpcs[i].operation
                 /\ r.responses[i].key = rpcs[i].key

\* C23: protocol integrity.  In every state, the response handle_rpc builds
\* for a request carries the operation and the key of the request, with or
\* without an exception; the only exception _send_rpcs raises for it is the
\* one the response carries, so its check of operation and key does not
\* fail; and the responses of get_batch and put_batch come back in the
\* order of their requests.
C23_ProtocolIntegrity ==
    /\ \A rpc \in AnyRequests :
          LET h == handle_rpc(data, rpc)
              x == Exchange(data, rpc)
          IN  /\ h.response.operation = rpc.operation
              /\ h.response.key = rpc.key
              /\ x.exception = h.response.exception
    /\ \A c \in Connectors, ks \in [1..MaxBatch -> keys] :
          LET rpcs == [i \in 1..MaxBatch |->
                         RPC("get", ks[i], None, ClientId(c))]
          IN  InOrder(rpcs, SendRpcs(data, rpcs))
    /\ \A c \in Connectors, key \in keys, n \in 1..MaxBatch :
          LET rpcs == BatchRpcs(BatchKeys(c, nextId, Objs(n), key).keys,
                                Objs(n))
          IN  InOrder(rpcs, SendRpcs(data, rpcs))

\* C23 witness: the store holds an object and a stream; an evict is answered
\* without an exception, another request with one, and a get_batch of two
\* different keys gets its two responses.
C23_Witness ==
    /\ \E rpc \in AnyRequests :
          /\ rpc.operation = "evict"
          /\ handle_rpc(data, rpc).response.exception = NoExc
          /\ handle_rpc(data, rpc).data # data
    /\ \E rpc \in AnyRequests :
          handle_rpc(data, rpc).response.exception \notin {NoExc, "AssertionError"}
    /\ \E c \in Connectors, k1 \in keys, k2 \in keys :
          /\ k1 # k2
          /\ Len(GetBatchCall(data, c, <<k1, k2>>).ret) = MaxBatch

\* The store holds an ended stream under sid.
EndedStream(d, sid) == sid \in DOMAIN d /\ d[sid].stream /\ d[sid].ended

\* C25: ended streams are closed.  A stream that is ended and stays in the
\* store stays ended with the sequence it has; and in every state a put
\* under a key of an ended stream raises InvalidStateError in the caller,
\* the exception of its response, and leaves the store, the stream's
\* sequence and every payload entry, as it was.
C25_EndedIsClosed ==
    /\ [][\A sid \in DOMAIN data :
             (EndedStream(data, sid) /\ sid \in DOMAIN data')
                 => /\ EndedStream(data', sid)
                    /\ data'[sid].proxy_uuids = data[sid].proxy_uuids
         ]_vars
    /\ [](\A c \in Connectors, key \in keys :
             EndedStream(data, key.stream_id)
                 => LET p == PutCall(data, c, nextId, Payload(nextId), key)
                    IN  /\ p.exception = "InvalidStateError"
                        /\ p.response.exception = "InvalidStateError"
                        /\ p.data = data)

\* C25 witness: the store holds an ended stream and a put to it raises.
C25_Witness ==
    \E c \in Connectors, key \in keys :
        /\ EndedStream(data, key.stream_id)
        /\ PutCall(data, c, nextId, Payload(nextId), key).exception
              = "InvalidStateError"

\* The store holds a stream under sid.
IsStream(d, sid) == sid \in DOMAIN d /\ d[sid].stream

\* C26: cursor discipline.  In every state every cursor of a stream lies
\* between 0 and the length of the sequence; a get on a stream key, by a
\* client tracked or not (its cursor is then 0), returns the element after
\* the client's cursor and moves the cursor by one when there is such an
\* element, and leaves the cursor where it is otherwise; and while a stream
\* stays in the store no step moves a cursor of it back or by more than
\* one.
C26_CursorDiscipline ==
    /\ [](\A sid \in DOMAIN data :
             data[sid].stream
                 => \A host \in DOMAIN data[sid].index :
                       /\ 0 <= data[sid].index[host]
                       /\ data[sid].index[host] <= Len(data[sid].proxy_uuids))
    /\ [](\A c \in Connectors, key \in keys :
             IsStream(data, key.stream_id)
                 => LET sid == key.stream_id
                        i == Cursor(data, sid, ClientId(c))
                        g == ServerGet(data, key, ClientId(c))
                    IN  /\ g.exception = NoExc
                        /\ IsStream(g.data, sid)
                        /\ ClientId(c) \in DOMAIN g.data[sid].index
                        /\ IF i < Len(data[sid].proxy_uuids)
                           THEN /\ Cursor(g.data, sid, ClientId(c)) = i + 1
                                /\ g.result =
                                      Lookup(data, data[sid].proxy_uuids[i + 1])
                                /\ ~g.block
                           ELSE /\ Cursor(g.data, sid, ClientId(c)) = i
                                /\ g.result = None)
    /\ [][\A sid \in DOMAIN data, c \in Connectors :
             (IsStream(data, sid) /\ IsStream(data', sid))
                 => /\ Cursor(data', sid, ClientId(c))
                          >= Cursor(data, sid, ClientId(c))
                    /\ Cursor(data', sid, ClientId(c))
                          <= Cursor(data, sid, ClientId(c)) + 1
                    /\ ClientId(c) \in DOMAIN data[sid].index
                          => ClientId(c) \in DOMAIN data'[sid].index
         ]_vars

\* C26 witness: a client has read a stream of two elements to its end while
\* another client is tracked at a cursor before it.
C26_Witness ==
    \E sid \in DOMAIN data, c \in Connectors, c2 \in Connectors :
        /\ data[sid].stream
        /\ Len(data[sid].proxy_uuids) = 2
        /\ ClientId(c) \in DOMAIN data[sid].index
        /\ data[sid].index[ClientId(c)] = 2
        /\ ClientId(c2) \in DOMAIN data[sid].index
        /\ data[sid].index[ClientId(c2)] < 2

\* C27: a waiting stream get makes progress.  In every state, a get on a
\* stream the client has read to its end and that is not ended raises
\* nothing, and while a connector waits for the response to such a get the
\* server loop is not held inside the handler: it handles the put or the
\* evict of another connector that lets the get complete.
C27_WaitingGetProgress ==
    /\ \A c \in Connectors, key \in keys :
          (IsStream(data, key.stream_id) /\ ~data[key.stream_id].ended
             /\ Cursor(data, key.stream_id, ClientId(c))
                   = Len(data[key.stream_id].proxy_uuids))
              => GetCall(data, c, key).exception = NoExc
    /\ \A c \in Connectors : pc[c] = "wait" => (Up /\ ~blocked)

\* The sequence of the stream sid in the store d, empty when d has none.
Sequence(d, sid) == IF IsStream(d, sid) THEN d[sid].proxy_uuids ELSE <<>>

\* C28: the server-side put.  In every state, a put that succeeds under a
\* key with a stream_id leaves a stream under the stream_id, new (not
\* ended, no client tracked) if there was none and otherwise changed in its
\* sequence only, whose sequence is the former one with the key's object id
\* appended at its end, and the payload under the object id; a put under a
\* key without stream_id stores the payload and changes no stream; and no
\* put, failed or not, changes or removes another entry of the store.
C28_ServerPut ==
    \A c \in Connectors, key \in keys \cup {NoKey} :
        LET b == Payload(nextId)
            p == PutCall(data, c, nextId, b, key)
            sid == p.built.stream_id
        IN  /\ p.built.obj_id = nextId
            /\ \A x \in DOMAIN data \ {sid} :
                  x \in DOMAIN p.data /\ p.data[x] = data[x]
            /\ (p.exception = NoExc /\ sid = 0)
                  => /\ DOMAIN p.data = DOMAIN data \cup {nextId}
                     /\ p.data[nextId] = BytesEntry(b)
            /\ (p.exception = NoExc /\ sid # 0)
                  => /\ DOMAIN p.data = DOMAIN data \cup {nextId, sid}
                     /\ p.data[nextId] = BytesEntry(b)
                     /\ IsStream(p.data, sid)
                     /\ p.data[sid].proxy_uuids
                           = Sequence(data, sid) \o <<nextId>>
                     /\ p.data[sid] =
                           [(IF sid \in DOMAIN data THEN data[sid]
                             ELSE ProxyStream)
                               EXCEPT !.proxy_uuids = @ \o <<nextId>>]

\* C28 witness: two puts have appended to one stream; both payloads are
\* stored, in the order of the sequence.
C28_Witness ==
    \E sid \in DOMAIN data :
        /\ IsStream(data, sid)
        /\ Len(data[sid].proxy_uuids) = 2
        /\ data[sid].proxy_uuids[1] < data[sid].proxy_uuids[2]
        /\ \A i \in 1..2 :
              /\ data[sid].proxy_uuids[i] \in DOMAIN data
              /\ data[data[sid].proxy_uuids[i]].bytes
                    = Payload(data[sid].proxy_uuids[i])

\* C30: packets go to the owner of the stream.  In every state, with an
\* empty server on another node and a stream key s made by create_stream
\* there, a put under s by a connector here succeeds, and a get on s, which
\* goes to the peer of s, then returns the object put.
C30_StreamOwnerStores ==
    \A c \in Connectors :
        LET s == DIMKey(nextId, 0, Remote, nextId)
            b == Payload(nextId + 1)
            built == DataKey(c, nextId + 1, b, s)
            p == Deliver(Servers(data, EmptyDict),
                         RPC("put", built, Some(b), 0))
            g == Deliver(p.stores, RPC("get", s, None, ClientId(c)))
        IN  /\ p.exception = NoExc
            /\ built.obj_id \in DOMAIN p.stores[s.peer]
            /\ g.exception = NoExc
            /\ g.response.data = Some(b)

\* The messages studied: one byte of header and a payload of up to
\* chunk_length times MaxChunk bytes and more.
Wire == {<<0>> \o Payload(i) : i \in 0..(MaxIds + MaxChunk)}

\* Every message is cut into chunks of at least one and at most chunk_length
\* bytes, and the receiver joins them to the message that was sent.
ChunkedIsLossless ==
    \A m \in Wire, chunk_length \in 1..MaxChunk :
        LET parts == chunk_bytes(m, chunk_length) IN
        /\ \A i \in 1..Len(parts) :
              Len(parts[i]) >= 1 /\ Len(parts[i]) <= chunk_length
        /\ Len(parts) * chunk_length >= Len(m)
        /\ (Len(parts) - 1) * chunk_length < Len(m)
        /\ Join(parts) = m
        /\ Transfer(m, chunk_length) = m

\* C31: chunked transfer is lossless.  In every state and for every
\* chunk_length, messages are cut into chunks of at most chunk_length bytes
\* that join to the message, and a payload put in chunks, of up to MaxIds
\* times the chunk_length, is what get returns, in chunks, under the value
\* the put returned.
C31_ChunkedRoundTrip ==
    /\ ChunkedIsLossless
    /\ \A c \in Connectors, chunk_length \in 1..MaxChunk :
          LET b == Payload(nextId)
              p == PutCall(data, c, nextId, Transfer(b, chunk_length), NoKey)
              g == GetCall(p.data, c, p.ret)
          IN  (p.exception = NoExc /\ ~p.block)
                  => /\ g.exception = NoExc
                     /\ g.ret # None
                     /\ Transfer(g.ret[1], chunk_length) = b

\* C32: server shutdown.  Once SIGINT or SIGTERM has reached the server,
\* the loop of run_server eventually exits and the endpoint is free, whether
\* requests arrive or not; a request the server has received is handled and
\* answered in one turn of the loop, before the loop tests close_future.
C32_Shutdown == (close_future # "pending") ~> ~Up

\* C33: when the probe after the spawn times out the construction fails
\* with ServerTimeoutError, the step leaves every server process as it
\* was (the child is neither terminated nor joined), and the failed
\* construction owns no server: spawn_server raised before it returned
\* the process.
C33_TimeoutLeavesChild ==
    /\ [](\A c \in Connectors : conn[c] = "failed" => server[c] = 0)
    /\ [][\A c \in Connectors :
            (conn[c] = "spawned" /\ conn'[c] = "failed")
                => /\ ~Pong
                   /\ proc' = proc
                   /\ proc[c] # "terminated"
                   /\ server'[c] = 0
        ]_vars

\* C33 witness: a construction has failed and the process it started is
\* serving, owned by nobody.
C33_Witness ==
    \E c \in Connectors :
        /\ conn[c] = "failed"
        /\ proc[c] = "running"
        /\ server[c] = 0
        /\ \A c2 \in Connectors : server[c2] # c

BoundedWaitKills ==
    \A c \in Connectors :
        (parent[c] = "exiting" /\ kill_timeout[c] # None) ~> ~Alive(c)

\* A get has returned: what it returned is None or all the bytes put was
\* given for a file it has returned the key of.
GetsWholeFiles ==
    \A c \in Connectors :
        (fileOp[c].at = "idle" /\ fileOp[c].op = "get")
            => \/ fileOp[c].ret = None
               \/ fileOp[c].ret = Some(filePuts[fileOp[c].filename])

\* C35: under every interleaving of the put, get and evict calls of
\* several connectors on one store directory, no call raises because a
\* file vanished between the existence check and the read or the removal,
\* and a get returns None or the complete bytes put wrote.
C35_FileInterleaving ==
    /\ GetsWholeFiles
    /\ \A c \in Connectors : fileOp[c].exc = NoExc

\* The messages of the send calls of peer p that have sent their
\* sentinel, in the order of the channel.
IsLast(entry) == entry.last

Sent(p) ==
    LET ends == SelectSeq(wire[p], IsLast)
    IN  [k \in 1..Len(ends) |-> peers[p].calls[ends[k].call]]

\* C36: round trip.  On an established connection the k-th recv of a peer
\* returns exactly the message of the k-th send of the other, whatever its
\* type, length and content.
C36_RoundTrip ==
    \A p \in Peers :
        LET sent == Sent(Other(p))
            recvd == peers[p].recvd
        IN  /\ Len(recvd) <= Len(sent)
            /\ \A k \in 1..Len(recvd) : recvd[k] = sent[k]

\* Messages that are not empty and have no chunk equal to the sentinel
\* make the round trip.
Plain(message) ==
    /\ message.body # <<>>
    /\ \A k \in DOMAIN SendChunks(message) : SendChunks(message)[k] # DONE

PlainRoundTrip ==
    \A p \in Peers :
        LET sent == Sent(Other(p))
            recvd == peers[p].recvd
        IN  (\A k \in DOMAIN peers[Other(p)].calls :
                    Plain(peers[Other(p)].calls[k]))
                => /\ Len(recvd) <= Len(sent)
                   /\ \A k \in 1..Len(recvd) : recvd[k] = sent[k]

\* The chunks and the sentinel of each send call are next to each other on
\* the channel.
Contiguous(w) ==
    \A i \in 1..Len(w), j \in 1..Len(w), k \in 1..Len(w) :
        (i < j /\ j < k /\ w[i].call = w[k].call) => w[j].call = w[i].call

\* A send of peer p is between its first chunk and its sentinel.
MidSend(p) ==
    \E t \in Tasks :
        /\ tasks[p][t].op = "send"
        /\ tasks[p][t].at = "locked"
        /\ tasks[p][t].i > 0

\* C37: the sends of one connection exclude each other and close.  The
\* chunks of a message and its sentinel are contiguous on the channel, and
\* no step closes the connection while a send is between its first chunk
\* and its sentinel.
C37_SendsExclusive ==
    /\ [](\A p \in Peers : Contiguous(wire[p]))
    /\ [][\A p \in Peers :
            (peers[p].state # "closed" /\ peers'[p].state = "closed")
                => ~MidSend(p)
        ]_vars

\* C37 witness: one message of several chunks is on the channel entire, a
\* second send is between two chunks and holds the lock, and a close
\* waits for it.
C37_Witness ==
    \E t \in Tasks, u \in Tasks :
        /\ tasks[1][t].op = "send" /\ tasks[1][t].at = "locked"
        /\ tasks[1][t].i = 1
        /\ Len(peers[1].calls[tasks[1][t].call].body) > 1
        /\ peers[1].send_lock = t
        /\ tasks[1][u].op = "close" /\ tasks[1][u].at = "lock"
        /\ Len(Sent(1)) = 1 /\ Len(Sent(1)[1].body) > 1

\* C38: the outcome of the handshake.  A ready that returned found the
\* channel established; a ready that raised raised PeerConnectionTimeout,
\* or PeerConnectionError after an error message of the signaling server;
\* no chunk is on the channel of a peer whose handshake has not succeeded;
\* an answer is addressed to the peer that made the offer; and a peer
\* whose channel has opened, and that got no error message, is ready.
C38_Handshake ==
    /\ \A p \in Peers, t \in Tasks :
          (tasks[p][t].at = "done" /\ tasks[p][t].op = "ready")
              => \/ /\ tasks[p][t].exc = NoExc
                    /\ peers[p].handshake_success = "result"
                    /\ peers[p].channel
                    /\ peers[p].state # "new"
                 \/ tasks[p][t].exc = "PeerConnectionTimeout"
                 \/ /\ tasks[p][t].exc = "PeerConnectionError"
                    /\ peers[p].error
    /\ \A p \in Peers :
          wire[p] # <<>> => peers[p].handshake_success = "result"
    /\ \A m \in signaling :
          m.type = "answer" => m.to # m.source /\ peers[m.to].local = "offer"
    /\ \A p \in Peers :
          (peers[p].state = "connected" /\ ~peers[p].error)
              => peers[p].handshake_success = "result"

\* Without a ready that times out and without an error message the
\* handshake has the outcome of C38.
NoTimeouts ==
    \A p \in Peers :
        /\ peers[p].handshake_success # "cancelled"
        /\ ~peers[p].error

HandshakeInTime == NoTimeouts => C38_Handshake

\* The established connection SpecChannel starts from is one the handshake
\* reaches.
NotEstablished == peers # EstablishedPeers

\* C39: StreamProducer.send stores before it publishes.  Every event
\* published, and so every event the consumer takes, names a key the Store
\* was given by the put of the same send; a step that publishes an event
\* is taken by a send whose put has returned that key; and a send whose
\* put raised publishes nothing.
C39_StoreThenPublish ==
    /\ [](\A k \in 1..Len(events) :
            /\ events[k].key \in DOMAIN objects
            /\ objects[events[k].key].by = events[k].by)
    /\ [][/\ events' # events
              => \E p \in Producers :
                    /\ producer[p].at = "stored"
                    /\ producer[p].key \in DOMAIN objects
                    /\ events' = Append(events, [key |-> producer[p].key,
                                                 evict |-> producer[p].evict,
                                                 by |-> p])
          /\ \A p \in Producers :
                (producer'[p] # producer[p] /\ producer'[p].exc = "StoreError")
                    => events' = events /\ producer'[p].at = "idle"
        ]_vars

\* C39 witness: one send has failed in put and published nothing, another
\* has published an event, which the consumer has taken and resolved.
C39_Witness ==
    \E p \in Producers, q \in Producers :
        /\ producer[p].exc = "StoreError"
        /\ \A k \in 1..Len(events) : events[k].by = q /\ q # p
        /\ Len(consumer) > 0
        /\ consumer[1].resolved
        /\ ~objects[consumer[1].key].held

\* ------------------------------------------------------------ the system

\* A fresh server store, no call in progress, n identifiers to mint.
InitPlane(n) ==
    /\ data = EmptyDict
    /\ blocked = FALSE
    /\ nextId = 1
    /\ keys = {}
    /\ pc = [c \in Connectors |-> "idle"]
    /\ call = [c \in Connectors |-> NoCall]
    /\ putLog = [s \in 1..n |-> <<>>]
    /\ reads = [c \in Connectors |-> [s \in 1..n |-> <<>>]]
    /\ evicted = {}
    /\ ended = {}
    /\ limit = n

\* No wait_for_server call under study.
NoWait == [timeout |-> 0, listening |-> FALSE, at |-> 0, now |-> 0,
           out |-> "idle"]

\* No signal has reached a server.
NoSignal == close_future = "pending"

\* The default of spawn_server for kill_timeout, in seconds.
KillTimeoutDefault == 1

\* No process that constructed a connector exits, and spawn_server is
\* called as ZeroMQConnector.__init__ calls it, without kill_timeout.
NoExit ==
    /\ parent = [c \in Connectors |-> "alive"]
    /\ kill_timeout = [c \in Connectors |-> Some(KillTimeoutDefault)]

\* An empty store directory that no FileConnector uses.
NoFiles ==
    /\ files = EmptyDict
    /\ filePuts = <<>>
    /\ fileKeys = {}
    /\ fileOp = [c \in Connectors |-> FileDone("none", 0, None, NoExc)]

\* A stream nobody has sent to.
NoStream ==
    /\ objects = EmptyDict
    /\ events = <<>>
    /\ producer = [p \in Producers |-> NoSend]
    /\ consumer = <<>>

\* Two PeerConnection objects just constructed.
NoPeers ==
    /\ peers = [p \in Peers |-> NewPeer]
    /\ tasks = [p \in Peers |-> [t \in Tasks |-> NoTask]]
    /\ signaling = {}
    /\ wire = [p \in Peers |-> <<>>]

\* Nothing happens outside the connectors and their server.
Elsewhere == NoSignal /\ NoExit /\ NoFiles /\ NoPeers /\ NoStream

\* The connectors are constructed one after the other: the first found no
\* server and spawned one, the others attached to it.
Constructed ==
    /\ proc = [c \in Connectors |-> IF c = 1 THEN "running" ELSE "none"]
    /\ conn = [c \in Connectors |-> "ready"]
    /\ server = [c \in Connectors |-> IF c = 1 THEN 1 ELSE 0]
    /\ wfs = NoWait
    /\ Elsewhere

Init == InitPlane(MaxIds) /\ Constructed

Next ==
    \E c \in Connectors :
        \/ Put(c)
        \/ PutBatch(c)
        \/ Get(c)
        \/ GetBatch(c)
        \/ Exists(c)
        \/ Evict(c)
        \/ CreateStream(c)
        \/ CloseStream(c)
        \/ SendRpc(c)

Spec == Init /\ [][Next]_vars

\* No connector is constructed yet and no server runs.
InitLife ==
    /\ InitPlane(MaxIds)
    /\ proc = [c \in Connectors |-> "none"]
    /\ conn = [c \in Connectors |-> "new"]
    /\ server = [c \in Connectors |-> 0]
    /\ wfs = NoWait
    /\ Elsewhere

NextLife ==
    \/ \E c \in Connectors :
          \/ Connect(c)
          \/ Bind(c)
          \/ Spawned(c)
          \/ \E kill_server \in BOOLEAN : Close(c, kill_server)
          \/ Put(c)
          \/ Get(c)
    \/ BadRequest

SpecLife == InitLife /\ [][NextLife]_vars

\* Streams written in batches while keys are evicted: room for a stream key,
\* a packet and a batch of MaxBatch objects.
InitBatch == InitPlane(MaxIds + 1) /\ Constructed

NextBatch ==
    \E c \in Connectors :
        \/ CreateStream(c)
        \/ Put(c)
        \/ Evict(c)
        \/ PutBatch(c)
        \/ SendRpc(c)

SpecBatch == InitBatch /\ [][NextBatch]_vars

\* A server that is sent requests and a signal.  A request received after
\* close_future is resolved and before the loop tests it is handled as one
\* received just before.  The event loop and the loop of run_server keep
\* running (a receive times out after 100 ms): the handler of the signal
\* and the exit are taken when they stay possible.
Serving == close_future # "done"

NextServe ==
    \/ \E c \in Connectors : Serving /\ CreateStream(c)
    \/ \E c \in Connectors : Serving /\ Put(c)
    \/ \E c \in Connectors : Serving /\ Get(c)
    \/ \E c \in Connectors : Serving /\ Evict(c)
    \/ Signal
    \/ SetResult
    \/ LoopExit

SpecServe ==
    Init /\ [][NextServe]_vars /\ WF_vars(SetResult) /\ WF_vars(LoopExit)

\* Connectors constructed by processes that exit, each with its own
\* kill_timeout.  A process that has begun to exit makes no more calls;
\* its exit callbacks run to their end when they can.
InitExit ==
    /\ InitPlane(MaxIds)
    /\ proc = [c \in Connectors |-> "none"]
    /\ conn = [c \in Connectors |-> "new"]
    /\ server = [c \in Connectors |-> 0]
    /\ wfs = NoWait
    /\ NoSignal /\ NoFiles /\ NoPeers /\ NoStream
    /\ parent = [c \in Connectors |-> "alive"]
    /\ kill_timeout \in [Connectors -> {None, Some(KillTimeoutDefault)}]

Calling(c) == parent[c] = "alive"

NextExit ==
    \/ \E c \in Connectors : Calling(c) /\ Connect(c)
    \/ \E c \in Connectors : Bind(c)
    \/ \E c \in Connectors : Calling(c) /\ Spawned(c)
    \/ \E c \in Connectors : Calling(c) /\ CreateStream(c)
    \/ \E c \in Connectors : Calling(c) /\ Put(c)
    \/ \E c \in Connectors : Calling(c) /\ Get(c)
    \/ \E c \in Connectors : ParentExit(c)
    \/ \E c \in Connectors : KillOnExit(c)

SpecExit ==
    /\ InitExit
    /\ [][NextExit]_vars
    /\ \A c \in Connectors : WF_vars(KillOnExit(c))

\* FileConnectors that put, get and evict in one store directory.
InitFile == InitPlane(MaxIds) /\ Constructed

NextFile ==
    \E c \in Connectors :
        \/ FilePutOpen(c)
        \/ FilePutWrite(c)
        \/ FileGetExists(c)
        \/ FileGetRead(c)
        \/ FileEvictExists(c)
        \/ FileEvictRemove(c)

SpecFile == InitFile /\ [][NextFile]_vars

\* Two clients that establish a peer connection through the signaling
\* server while a coroutine of each calls ready and send, one call after
\* the other.
InitPeer == Init

Hello == Bytes(<<"a", "a">>)

NextPeer ==
    \/ \E p \in Peers : send_offer(p)
    \/ \E p \in Peers : ServerError(p)
    \/ \E p \in Peers : handle_server_message(p)
    \/ \E p \in Peers : ChannelOpen(p)
    \/ \E p \in Peers : ReadyCall(p, 1)
    \/ \E p \in Peers : SendCall(p, 1, Hello)
    \/ \E p \in Peers : Ready(p, 1)
    \/ \E p \in Peers : ReadyTimeout(p, 1)
    \/ \E p \in Peers : Acquire(p, 1)
    \/ \E p \in Peers : SendChunk(p, 1)
    \/ \E p \in Peers : SendDone(p, 1)

SpecPeer == InitPeer /\ [][NextPeer]_vars

\* The coroutines of peer 1 send messages and close the connection, peer 2
\* receives.
InitChannel ==
    /\ InitPlane(MaxIds)
    /\ proc = [c \in Connectors |-> IF c = 1 THEN "running" ELSE "none"]
    /\ conn = [c \in Connectors |-> "ready"]
    /\ server = [c \in Connectors |-> IF c = 1 THEN 1 ELSE 0]
    /\ wfs = NoWait
    /\ NoSignal /\ NoExit /\ NoFiles /\ NoStream
    /\ peers = EstablishedPeers
    /\ tasks = [p \in Peers |-> [t \in Tasks |-> NoTask]]
    /\ signaling = {}
    /\ wire = [p \in Peers |-> <<>>]

NextChannel ==
    \/ \E t \in Tasks, message \in PeerMessages : SendCall(1, t, message)
    \/ \E t \in Tasks : CloseCall(1, t)
    \/ \E t \in Tasks : Ready(1, t)
    \/ \E t \in Tasks : Acquire(1, t)
    \/ \E t \in Tasks : SendChunk(1, t)
    \/ \E t \in Tasks : SendDone(1, t)
    \/ \E t \in Tasks : CloseDone(1, t)
    \/ Recv(2)

SpecChannel == InitChannel /\ [][NextChannel]_vars

\* Producers that send objects to a topic and a consumer that takes the
\* events and resolves the proxies.
InitStream == Init

NextStream ==
    \/ \E p \in Producers : SendPut(p)
    \/ \E p \in Producers : SendPublish(p)
    \/ ConsumerNext
    \/ ProxyResolve

SpecStream == InitStream /\ [][NextStream]_vars

\* One call of wait_for_server, for every timeout, with and without a
\* listening server; nothing else happens.  The call is sequential code
\* that keeps running, hence the weak fairness.
InitProbe ==
    /\ InitPlane(MaxIds)
    /\ proc = [c \in Connectors |-> "none"]
    /\ conn = [c \in Connectors |-> "new"]
    /\ server = [c \in Connectors |-> 0]
    /\ \E timeout \in Timeouts, listening \in BOOLEAN, at \in Arrivals,
          now \in Delays :
          wfs = Wait(timeout, listening, IF listening THEN at ELSE 0, now)
    /\ Elsewhere

NextProbe == WaitPoll \/ WaitRaise

SpecProbe == InitProbe /\ [][NextProbe]_vars /\ WF_vars(NextProbe)

====
